---- MODULE Spec2Model ----
(***************************************************************************)
(* The Cordz delete queue of absl/strings/internal/cordz_handle.{h,cc}:    *)
(* a global, mutex guarded, doubly linked list of CordzHandle objects.     *)
(* Snapshots link themselves at the tail when constructed; a non-snapshot  *)
(* handle passed to CordzHandle::Delete is either destroyed at once or     *)
(* appended to the tail until the snapshots that may see it are gone.      *)
(*                                                                         *)
(* Threads run the constructors, Delete and the destructor concurrently.   *)
(* A running call works on one handle and no two calls work on the same    *)
(* handle, so a call is named by its handle: pc[h] is the position of the  *)
(* call running on h.  Every critical section is entered by a separate     *)
(* lock step, so the lock-free emptiness check of Delete interleaves with  *)
(* the other threads anywhere outside a critical section body.             *)
(*                                                                         *)
(* A run allocates at most MaxHandles objects; a freed one is not          *)
(* allocated again.                                                        *)
(*                                                                         *)
(* The module also holds the reference counter of a CordRep node,          *)
(* RefcountAndFlags of absl/strings/internal/cord_internal.h, with the     *)
(* threads that share the node.  The queue and the counter do not touch    *)
(* each other's state: every action of one leaves the other's variables    *)
(* unchanged, and each has its own specification.                          *)
(*                                                                         *)
(* The node representation follows: the size classes of flat nodes         *)
(* (cord_rep_flat.h), substring and external nodes, and InlineData         *)
(* (cord_internal.h), each with a specification of its own as well.        *)
(***************************************************************************)
EXTENDS Integers, Sequences, FiniteSets, TLC

\* Number of CordzHandle objects allocated in a run.
MaxHandles == 3
\* Number of threads, i.e. of calls running at the same time.
NumThreads == 2
\* Most references the threads hold on one node at the same time.
MaxRefs == 3
\* Most calls made on an immortal counter in a run.
MaxCalls == 3
\* Number of CordRep nodes allocated in a run.
MaxNodes == 3
\* Longest flat or external node, in bytes.
MaxLen == 3
\* Longest run of freely chosen bytes in an inline string.
MaxStr == 3
\* Beyond 8 KiB, the sizes tried are those within Near of a multiple of
\* 4 KiB; up to 8 KiB every size is tried.
Near == 2

Handles == 1..MaxHandles
\* The null pointer.
Null == 0

VARIABLES
  is_snapshot_,   \* CordzHandle::is_snapshot_ of every handle
  dq_prev_,       \* CordzHandle::dq_prev_  (towards the head)
  dq_next_,       \* CordzHandle::dq_next_  (towards the tail)
  dq_tail,        \* Queue::dq_tail
  mutex,          \* Queue::mutex: Null when free, else the handle whose
                  \* call holds it
  status,         \* lifetime of every handle object
  pc,             \* position of the call running on every handle
  to_delete,      \* the local vector of a running ~CordzHandle
  guards,         \* history: the snapshots that were alive when Delete(h)
                  \* was called on the non-snapshot handle h
  appended,       \* history: the handles not destroyed yet, in the order
                  \* in which they were appended to the queue
  diag,           \* the value a Diagnostics call has just returned, until
                  \* the caller drops it or another step is taken
  count_,         \* RefcountAndFlags::count_ of the node, an int32_t
  ctor,           \* the constructor that made the counter
  refs,           \* the references every thread holds on the node
  rpc,            \* position of every thread in a call on the counter
  refcount,       \* the local `refcount` of every thread in Decrement()
  destroys,       \* number of CordRep::Destroy calls on the node
  calls,          \* number of calls made on an immortal counter
  ret,            \* the call on the counter that has just returned
  flat,           \* the call of the flat size-class code that has just
                  \* returned, with its arguments and results
  heap,           \* the CordRep nodes: tag, length, start, child, refcount
  owned,          \* the references the caller holds on every node
  released,       \* the calls of every node's releaser, with arguments
  last,           \* the call on the nodes that has just returned
  rep_,           \* InlineData::rep_: the 16 bytes of the union
  icall,          \* the call on the InlineData that has just returned
  nullcall,       \* how the calls Delete(nullptr) made so far have ended
  mcall,          \* the SmallMemmove call on one buffer that has just
                  \* returned, with the buffer before and after
  queue_,         \* ThreadPool::queue_: the functions and shutdown signals
  wpc,            \* position of every worker thread in WorkLoop
  func,           \* the local `func` of every worker thread
  runs,           \* history: how often every function was started and
                  \* how often it has finished
  tpc,            \* position of the thread that owns the pool
  joined,         \* the workers the destructor has joined
  crc_rep,        \* CrcCordState::Rep: removed_prefix and prefix_crc
  ccall           \* the call on the CrcCordState that has just returned

\* The variables of the delete queue and of its callers.
handleVars == <<is_snapshot_, dq_prev_, dq_next_, dq_tail, mutex, status, pc,
                to_delete, guards, appended, diag>>

\* The variables of the reference counter and of its callers.
refVars == <<count_, ctor, refs, rpc, refcount, destroys, calls, ret>>

\* The variables of the nodes and of their callers.
treeVars == <<heap, owned, released, last>>

\* The state of the InlineData object.
inlineVars == <<rep_, icall>>

\* The variables of the node representation.
repVars == <<flat, treeVars, inlineVars>>

\* The ThreadPool and its threads.
poolVars == <<queue_, wpc, func, runs, tpc, joined>>

\* The CrcCordState object and its caller.
crcVars == <<crc_rep, ccall>>

\* The variables outside the queue, the counter and the nodes.
extVars == <<nullcall, mcall, poolVars, crcVars>>

vars == <<handleVars, refVars, repVars, extVars>>

queueVars == <<dq_prev_, dq_next_, dq_tail>>

NoDiag == [op |-> "none", self |-> Null, arg |-> Null,
           retb |-> FALSE, retv |-> <<>>]

\* Lifetime of a handle object:
\*   free          not allocated yet
\*   constructing  a snapshot inside its constructor, not linked yet
\*   live          constructed and not passed to Delete
\*   deleting      passed to Delete (or inside its destructor), still where
\*                 it was: a snapshot is still linked
\*   queued        a non-snapshot handle deferred on the queue
\*   unlinked      taken off the queue by a running destructor, which has
\*                 not freed it yet
\*   destroyed     destroyed and freed
Status == {"free", "constructing", "live", "deleting", "queued", "unlinked",
           "destroyed"}

\* Positions of a call:
\*   ctor_cs    CordzHandle(true), holding the lock
\*   del_lock   Delete, SafeToDelete() was false, about to lock
\*   del_cs     Delete, holding the lock
\*   dtor_lock  ~CordzHandle of a snapshot, about to lock
\*   dtor_cs    ~CordzHandle, holding the lock
\*   dtor_loop  ~CordzHandle, lock released, about to delete to_delete
\*   dtor_ret   ~CordzHandle, about to return
Positions == {"none", "ctor_cs", "del_lock", "del_cs", "dtor_lock",
              "dtor_cs", "dtor_loop", "dtor_ret"}

Range(s) == {s[i] : i \in 1..Len(s)}

Min(S) == CHOOSE x \in S : \A y \in S : x <= y

Free == {h \in Handles : status[h] = "free"}

\* operator new: an object that is not allocated.
NewHandle == Min(Free)

\* The calls in flight, one thread each.
Running == {h \in Handles : pc[h] # "none"}

\* A thread is free to start a call.
ThreadIdle == Cardinality(Running) < NumThreads

----------------------------------------------------------------------------
\* An emptiness check that never loads dq_tail and takes the queue for
\* empty.
IsEmpty_NoLoad == TRUE

(* Queue::IsEmpty: a load of dq_tail without the lock.                     *)
IsEmpty == dq_tail = Null

\* A SafeToDelete that forgets the queue: every handle is safe to delete.
SafeToDelete_Always(h) == TRUE

\* A SafeToDelete that forgets the emptiness test: only snapshots are safe.
SafeToDelete_SnapshotOnly(h) == is_snapshot_[h]

(* CordzHandle::SafeToDelete                                               *)
SafeToDelete(h) == is_snapshot_[h] \/ IsEmpty

\* An append that leaves dq_next_ of the old tail alone.
LinkAtTail_NoNext(h) ==
  /\ dq_prev_' = [dq_prev_ EXCEPT ![h] = dq_tail]
  /\ dq_next_' = dq_next_
  /\ dq_tail' = h

(* The append the constructor and Delete perform under the lock: link h    *)
(* behind the current tail and store it as the new tail.                   *)
LinkAtTail(h) ==
  /\ dq_prev_' = [dq_prev_ EXCEPT ![h] = dq_tail]
  /\ dq_next_' = IF dq_tail # Null
                   THEN [dq_next_ EXCEPT ![dq_tail] = h]
                   ELSE dq_next_
  /\ dq_tail' = h

(* `delete` of the objects in `gone`: their memory is gone.  is_snapshot_  *)
(* is const and keeps telling which kind of object it was.                 *)
FreeObjects(gone) ==
  /\ status' = [h \in Handles |->
                  IF h \in gone THEN "destroyed" ELSE status[h]]
  /\ dq_prev_' = [h \in Handles |-> IF h \in gone THEN Null ELSE dq_prev_[h]]
  /\ dq_next_' = [h \in Handles |-> IF h \in gone THEN Null ELSE dq_next_[h]]
  /\ appended' = SelectSeq(appended, LAMBDA x : x \notin gone)

(* The delete queue before the first handle is made.                       *)
HandlesInit ==
  /\ is_snapshot_ = [h \in Handles |-> FALSE]
  /\ dq_prev_ = [h \in Handles |-> Null]
  /\ dq_next_ = [h \in Handles |-> Null]
  /\ dq_tail = Null
  /\ mutex = Null
  /\ status = [h \in Handles |-> "free"]
  /\ pc = [h \in Handles |-> "none"]
  /\ to_delete = [h \in Handles |-> <<>>]
  /\ guards = [h \in Handles |-> {}]
  /\ appended = <<>>
  /\ diag = NoDiag

----------------------------------------------------------------------------
\* A constructor that takes the queue mutex for every handle.
ConstructHandle_Locked ==
  /\ ThreadIdle
  /\ Free # {}
  /\ mutex = Null
  /\ status' = [status EXCEPT ![NewHandle] = "live"]
  /\ is_snapshot_' = [is_snapshot_ EXCEPT ![NewHandle] = FALSE]
  /\ UNCHANGED <<refVars, repVars, extVars>>
  /\ diag' = NoDiag
  /\ UNCHANGED <<queueVars, mutex, pc, to_delete, guards, appended>>

(* CordzHandle::CordzHandle(false): touches no shared state.               *)
ConstructHandle ==
  /\ ThreadIdle
  /\ Free # {}
  /\ status' = [status EXCEPT ![NewHandle] = "live"]
  /\ is_snapshot_' = [is_snapshot_ EXCEPT ![NewHandle] = FALSE]
  /\ UNCHANGED <<refVars, repVars, extVars>>
  /\ diag' = NoDiag
  /\ UNCHANGED <<queueVars, mutex, pc, to_delete, guards, appended>>

(* CordzHandle::CordzHandle(true): MutexLock lock(&global_queue.mutex)     *)
ConstructSnapshotLock ==
  /\ ThreadIdle
  /\ Free # {}
  /\ mutex = Null
  /\ mutex' = NewHandle
  /\ status' = [status EXCEPT ![NewHandle] = "constructing"]
  /\ is_snapshot_' = [is_snapshot_ EXCEPT ![NewHandle] = TRUE]
  /\ pc' = [pc EXCEPT ![NewHandle] = "ctor_cs"]
  /\ UNCHANGED <<refVars, repVars, extVars>>
  /\ diag' = NoDiag
  /\ UNCHANGED <<queueVars, to_delete, guards, appended>>

(* CordzHandle::CordzHandle(true): the body under the lock, and unlock.    *)
ConstructSnapshotLocked(h) ==
  /\ pc[h] = "ctor_cs"
  /\ LinkAtTail(h)
  /\ status' = [status EXCEPT ![h] = "live"]
  /\ appended' = Append(appended, h)
  /\ mutex' = Null
  /\ pc' = [pc EXCEPT ![h] = "none"]
  /\ UNCHANGED <<refVars, repVars, extVars>>
  /\ diag' = NoDiag
  /\ UNCHANGED <<is_snapshot_, to_delete, guards>>

----------------------------------------------------------------------------
\* The snapshots that are constructed and have not left the queue.
AliveSnapshots ==
  {s \in Handles : is_snapshot_[s] /\ status[s] \in {"live", "deleting"}}

(* CordzHandle::Delete(handle), up to the SafeToDelete() test.  A handle   *)
(* that is safe to delete is deleted by `delete handle`: a non-snapshot    *)
(* is freed at once (its destructor does nothing), a snapshot enters       *)
(* ~CordzHandle.  Otherwise the call goes on to take the lock.             *)
DeleteCall(h) ==
  /\ ThreadIdle
  /\ status[h] = "live"
  /\ IF SafeToDelete(h)
       THEN IF is_snapshot_[h]
              THEN /\ status' = [status EXCEPT ![h] = "deleting"]
                   /\ pc' = [pc EXCEPT ![h] = "dtor_lock"]
                   /\ UNCHANGED <<is_snapshot_, queueVars, appended>>
              ELSE /\ FreeObjects({h})
                   /\ UNCHANGED <<is_snapshot_, pc, dq_tail>>
       ELSE /\ status' = [status EXCEPT ![h] = "deleting"]
            /\ pc' = [pc EXCEPT ![h] = "del_lock"]
            /\ UNCHANGED <<is_snapshot_, queueVars, appended>>
  /\ guards' = IF is_snapshot_[h] THEN guards
                                   ELSE [guards EXCEPT ![h] = AliveSnapshots]
  /\ UNCHANGED <<refVars, repVars, extVars>>
  /\ diag' = NoDiag
  /\ UNCHANGED <<mutex, to_delete>>

(* CordzHandle::Delete: MutexLock lock(&queue.mutex)                       *)
DeleteLock(h) ==
  /\ pc[h] = "del_lock"
  /\ mutex = Null
  /\ mutex' = h
  /\ pc' = [pc EXCEPT ![h] = "del_cs"]
  /\ UNCHANGED <<refVars, repVars, extVars>>
  /\ diag' = NoDiag
  /\ UNCHANGED <<is_snapshot_, queueVars, status, to_delete, guards,
                 appended>>

\* A Delete that trusts its SafeToDelete test and appends without looking
\* at dq_tail again under the lock.
DeleteLocked_NoRecheck(h) ==
  /\ pc[h] = "del_cs"
  /\ LinkAtTail(h)
  /\ status' = [status EXCEPT ![h] = "queued"]
  /\ appended' = Append(appended, h)
  /\ mutex' = Null
  /\ pc' = [pc EXCEPT ![h] = "none"]
  /\ UNCHANGED <<refVars, repVars, extVars>>
  /\ diag' = NoDiag
  /\ UNCHANGED <<is_snapshot_, to_delete, guards>>

\* A Delete without the `return` after the append: the handle is queued
\* and deleted all the same.
DeleteLocked_NoReturn(h) ==
  /\ pc[h] = "del_cs"
  /\ IF dq_tail # Null
       THEN /\ LinkAtTail(h)
            /\ status' = [status EXCEPT ![h] = "destroyed"]
            /\ UNCHANGED <<is_snapshot_, guards, appended>>
       ELSE /\ FreeObjects({h})
            /\ UNCHANGED <<is_snapshot_, dq_tail, guards>>
  /\ mutex' = Null
  /\ pc' = [pc EXCEPT ![h] = "none"]
  /\ UNCHANGED <<refVars, repVars, extVars>>
  /\ diag' = NoDiag
  /\ UNCHANGED to_delete

(* CordzHandle::Delete under the lock: with a tail present the handle is   *)
(* appended and the call returns; without one the lock is dropped and the  *)
(* handle deleted.                                                         *)
DeleteLocked(h) ==
  /\ pc[h] = "del_cs"
  /\ IF dq_tail # Null
       THEN /\ LinkAtTail(h)
            /\ status' = [status EXCEPT ![h] = "queued"]
            /\ appended' = Append(appended, h)
            /\ UNCHANGED <<is_snapshot_, guards>>
       ELSE /\ FreeObjects({h})
            /\ UNCHANGED <<is_snapshot_, dq_tail, guards>>
  /\ mutex' = Null
  /\ pc' = [pc EXCEPT ![h] = "none"]
  /\ UNCHANGED <<refVars, repVars, extVars>>
  /\ diag' = NoDiag
  /\ UNCHANGED to_delete

----------------------------------------------------------------------------
\* A loop that stops after the first handle.
RunFrom_One(p) ==
  IF p # Null /\ ~is_snapshot_[p] THEN <<p>> ELSE <<>>

(* ~CordzHandle of a snapshot: the while loop of the head case, which      *)
(* collects the non-snapshot handles that follow.                          *)
RECURSIVE RunFrom(_)
RunFrom(p) ==
  IF p # Null /\ ~is_snapshot_[p]
    THEN <<p>> \o RunFrom(dq_next_[p])
    ELSE <<>>

(* ... and the value of `next` when that loop ends.                        *)
RECURSIVE RunEnd(_)
RunEnd(p) ==
  IF p # Null /\ ~is_snapshot_[p] THEN RunEnd(dq_next_[p]) ELSE p

\* A destructor that collects the following handles without testing that
\* it is the head.
DtorToDelete_NoHeadCheck(self) == RunFrom(dq_next_[self])

(* The vector to_delete when the destructor leaves its critical section.   *)
DtorToDelete(self) ==
  IF dq_prev_[self] = Null THEN RunFrom(dq_next_[self]) ELSE <<>>

\* A destructor that relinks the list at its own successor, whatever it
\* has collected.
DtorNext_NoSkip(self) == dq_next_[self]

(* The local `next` when the destructor relinks the list.                  *)
DtorNext(self) ==
  IF dq_prev_[self] = Null THEN RunEnd(dq_next_[self]) ELSE dq_next_[self]

(* ~CordzHandle: MutexLock lock(&global_queue.mutex)                       *)
DtorLock(self) ==
  /\ pc[self] = "dtor_lock"
  /\ mutex = Null
  /\ mutex' = self
  /\ pc' = [pc EXCEPT ![self] = "dtor_cs"]
  /\ UNCHANGED <<refVars, repVars, extVars>>
  /\ diag' = NoDiag
  /\ UNCHANGED <<is_snapshot_, queueVars, status, to_delete, guards,
                 appended>>

\* A destructor that never stores dq_tail: the last entry stays the tail.
DtorLocked_KeepTail(self) ==
  LET next == DtorNext(self)
      td   == DtorToDelete(self)
  IN
  /\ pc[self] = "dtor_cs"
  /\ dq_next_' = IF dq_prev_[self] # Null
                   THEN [dq_next_ EXCEPT ![dq_prev_[self]] = next]
                   ELSE dq_next_
  /\ dq_prev_' = IF next # Null
                   THEN [dq_prev_ EXCEPT ![next] = dq_prev_[self]]
                   ELSE dq_prev_
  /\ dq_tail' = dq_tail
  /\ to_delete' = [to_delete EXCEPT ![self] = td]
  /\ status' = [h \in Handles |->
                  IF h = self \/ h \in Range(td) THEN "unlinked"
                                                 ELSE status[h]]
  /\ mutex' = Null
  /\ pc' = [pc EXCEPT ![self] = "dtor_loop"]
  /\ UNCHANGED <<refVars, repVars, extVars>>
  /\ diag' = NoDiag
  /\ UNCHANGED <<is_snapshot_, guards, appended>>

(* ~CordzHandle under the lock: unlink this, and unlock.                   *)
DtorLocked(self) ==
  LET next == DtorNext(self)
      td   == DtorToDelete(self)
  IN
  /\ pc[self] = "dtor_cs"
  /\ dq_next_' = IF dq_prev_[self] # Null
                   THEN [dq_next_ EXCEPT ![dq_prev_[self]] = next]
                   ELSE dq_next_
  /\ dq_prev_' = IF next # Null
                   THEN [dq_prev_ EXCEPT ![next] = dq_prev_[self]]
                   ELSE dq_prev_
  /\ dq_tail' = IF next # Null THEN dq_tail ELSE dq_prev_[self]
  /\ to_delete' = [to_delete EXCEPT ![self] = td]
  /\ status' = [h \in Handles |->
                  IF h = self \/ h \in Range(td) THEN "unlinked"
                                                 ELSE status[h]]
  /\ mutex' = Null
  /\ pc' = [pc EXCEPT ![self] = "dtor_loop"]
  /\ UNCHANGED <<refVars, repVars, extVars>>
  /\ diag' = NoDiag
  /\ UNCHANGED <<is_snapshot_, guards, appended>>

(* ~CordzHandle after the lock: delete every handle of to_delete.         *)
DtorDelete(self) ==
  /\ pc[self] = "dtor_loop"
  /\ FreeObjects(Range(to_delete[self]))
  /\ to_delete' = [to_delete EXCEPT ![self] = <<>>]
  /\ pc' = [pc EXCEPT ![self] = "dtor_ret"]
  /\ UNCHANGED <<refVars, repVars, extVars>>
  /\ diag' = NoDiag
  /\ UNCHANGED <<is_snapshot_, dq_tail, mutex, guards>>

(* ~CordzHandle returns, and `delete` frees the snapshot itself.           *)
DtorReturn(self) ==
  /\ pc[self] = "dtor_ret"
  /\ FreeObjects({self})
  /\ pc' = [pc EXCEPT ![self] = "none"]
  /\ UNCHANGED <<refVars, repVars, extVars>>
  /\ diag' = NoDiag
  /\ UNCHANGED <<is_snapshot_, dq_tail, mutex, to_delete, guards>>

----------------------------------------------------------------------------
\* A loop that forgets the flag: a handle that is found is safe.
RECURSIVE InspectWalk_IgnoreFlag(_, _, _, _)
InspectWalk_IgnoreFlag(p, self, h, snapshot_found) ==
  IF p = Null THEN TRUE
  ELSE IF p = h THEN TRUE
  ELSE InspectWalk_IgnoreFlag(dq_prev_[p], self, h, snapshot_found)

\* A loop that gives up as soon as it reaches the observer.
RECURSIVE InspectWalk_StopAtObserver(_, _, _, _)
InspectWalk_StopAtObserver(p, self, h, snapshot_found) ==
  IF p = Null THEN TRUE
  ELSE IF p = h THEN TRUE
  ELSE IF p = self THEN FALSE
  ELSE InspectWalk_StopAtObserver(dq_prev_[p], self, h, snapshot_found)

(* The loop of DiagnosticsHandleIsSafeToInspect: from the tail along       *)
(* dq_prev_, with the flag snapshot_found.                                 *)
RECURSIVE InspectWalk(_, _, _, _)
InspectWalk(p, self, h, snapshot_found) ==
  IF p = Null THEN TRUE
  ELSE IF p = h THEN ~snapshot_found
  ELSE InspectWalk(dq_prev_[p], self, h, snapshot_found \/ p = self)

\* A method that tests handle->is_snapshot_ first and takes nullptr for
\* unsafe.
DiagnosticsHandleIsSafeToInspect_NullUnsafe(self, h) ==
  IF ~is_snapshot_[self] THEN FALSE
  ELSE IF h = Null THEN FALSE
  ELSE IF is_snapshot_[h] THEN FALSE
  ELSE InspectWalk(dq_tail, self, h, FALSE)

(* CordzHandle::DiagnosticsHandleIsSafeToInspect                           *)
DiagnosticsHandleIsSafeToInspect(self, h) ==
  IF ~is_snapshot_[self] THEN FALSE
  ELSE IF h = Null THEN TRUE
  ELSE IF is_snapshot_[h] THEN FALSE
  ELSE InspectWalk(dq_tail, self, h, FALSE)

\* A loop that stops after the tail.
QueueWalk_TailOnly(p) == IF p = Null THEN <<>> ELSE <<p>>

(* The loop of DiagnosticsGetDeleteQueue: from p along dq_prev_.           *)
RECURSIVE QueueWalk(_)
QueueWalk(p) ==
  IF p = Null THEN <<>> ELSE <<p>> \o QueueWalk(dq_prev_[p])

(* CordzHandle::DiagnosticsGetDeleteQueue                                  *)
DiagnosticsGetDeleteQueue == QueueWalk(dq_tail)

\* A loop that keeps every entry, snapshots too.
RECURSIVE SafeWalk_KeepSnapshots(_)
SafeWalk_KeepSnapshots(p) ==
  IF p = Null THEN <<>> ELSE <<p>> \o SafeWalk_KeepSnapshots(dq_next_[p])

\* A loop that stops at the next snapshot.
SafeWalk_StopAtSnapshot(p) == RunFrom(p)

(* The loop of DiagnosticsGetSafeToInspectDeletedHandles: from p along     *)
(* dq_next_, keeping the non-snapshot handles.                             *)
RECURSIVE SafeWalk(_)
SafeWalk(p) ==
  IF p = Null THEN <<>>
  ELSE (IF ~is_snapshot_[p] THEN <<p>> ELSE <<>>) \o SafeWalk(dq_next_[p])

\* A method that lists the deferred handles of the whole queue, the ones in
\* front of the snapshot too.
DiagnosticsGetSafeToInspectDeletedHandles_WholeQueue(self) ==
  IF ~is_snapshot_[self]
    THEN <<>>
    ELSE SelectSeq(QueueWalk(dq_tail), LAMBDA x : ~is_snapshot_[x])

(* CordzHandle::DiagnosticsGetSafeToInspectDeletedHandles                  *)
DiagnosticsGetSafeToInspectDeletedHandles(self) ==
  IF ~is_snapshot_[self] THEN <<>> ELSE SafeWalk(dq_next_[self])

\* The objects a caller may call a Diagnostics method on: constructed, and
\* not handed to Delete.
Callable == {h \in Handles : status[h] = "live"}

\* The handles a caller may pass to DiagnosticsHandleIsSafeToInspect:
\* constructed, and not about to be freed by a running call.
Inspectable == {h \in Handles : status[h] \in {"live", "queued"}}

(* A call of DiagnosticsHandleIsSafeToInspect.  The early returns need no  *)
(* lock; the walk holds the mutex from start to end.                       *)
CallIsSafeToInspect(self, h) ==
  /\ ThreadIdle
  /\ diag = NoDiag
  /\ self \in Callable
  /\ h \in Inspectable \cup {Null}
  /\ (is_snapshot_[self] /\ h # Null /\ ~is_snapshot_[h]) => mutex = Null
  /\ UNCHANGED <<refVars, repVars, extVars>>
  /\ diag' = [op |-> "IsSafeToInspect", self |-> self, arg |-> h,
              retb |-> DiagnosticsHandleIsSafeToInspect(self, h),
              retv |-> <<>>]
  /\ UNCHANGED <<is_snapshot_, queueVars, mutex, status, pc, to_delete,
                 guards, appended>>

(* A call of DiagnosticsGetSafeToInspectDeletedHandles.                    *)
CallGetSafeToInspectDeletedHandles(self) ==
  /\ ThreadIdle
  /\ diag = NoDiag
  /\ self \in Callable
  /\ is_snapshot_[self] => mutex = Null
  /\ UNCHANGED <<refVars, repVars, extVars>>
  /\ diag' = [op |-> "GetSafeToInspectDeletedHandles", self |-> self,
              arg |-> Null, retb |-> FALSE,
              retv |-> DiagnosticsGetSafeToInspectDeletedHandles(self)]
  /\ UNCHANGED <<is_snapshot_, queueVars, mutex, status, pc, to_delete,
                 guards, appended>>

(* A call of DiagnosticsGetDeleteQueue.                                    *)
CallGetDeleteQueue ==
  /\ ThreadIdle
  /\ diag = NoDiag
  /\ mutex = Null
  /\ UNCHANGED <<refVars, repVars, extVars>>
  /\ diag' = [op |-> "GetDeleteQueue", self |-> Null, arg |-> Null,
              retb |-> FALSE, retv |-> DiagnosticsGetDeleteQueue]
  /\ UNCHANGED <<is_snapshot_, queueVars, mutex, status, pc, to_delete,
                 guards, appended>>

(* The caller of a Diagnostics method drops the value it got.             *)
DropDiagnostics ==
  /\ diag # NoDiag
  /\ UNCHANGED <<refVars, repVars, extVars>>
  /\ diag' = NoDiag
  /\ UNCHANGED <<is_snapshot_, queueVars, mutex, status, pc, to_delete,
                 guards, appended>>

----------------------------------------------------------------------------
(* RefcountAndFlags: the count, shifted left by kNumFlags, and the flag     *)
(* kImmortalFlag in bit 0, in one std::atomic<int32_t>.                    *)
kNumFlags == 1
kImmortalFlag == 1
kRefIncrement == 2 ^ kNumFlags

\* The largest and the smallest int32_t.
MaxInt32 == 2147483647
MinInt32 == -MaxInt32 - 1

Threads == 1..NumThreads

(* std::atomic<int32_t>::fetch_add and fetch_sub of kRefIncrement: the     *)
(* value stored, which wraps around in two's complement.                   *)
fetch_add(v) ==
  IF v > MaxInt32 - kRefIncrement
    THEN MinInt32 + (v - (MaxInt32 - kRefIncrement) - 1)
    ELSE v + kRefIncrement

fetch_sub(v) ==
  IF v < MinInt32 + kRefIncrement
    THEN MaxInt32 - ((MinInt32 + kRefIncrement) - v - 1)
    ELSE v - kRefIncrement

\* An Increment that adds two references.
Increment_Twice(v) == fetch_add(fetch_add(v))

\* An Increment that adds nothing.
Increment_NoAdd(v) == v

(* RefcountAndFlags::Increment: the value it leaves in count_ = v.         *)
Increment(v) == fetch_add(v)

\* A Decrement that subtracts whatever it has loaded.
Decrement_AlwaysSub(loaded, v) ==
  [count |-> fetch_sub(v), ret |-> v # kRefIncrement]

\* A Decrement that returns early for every value up to kRefIncrement.
Decrement_EarlyUpToOne(loaded, v) ==
  IF loaded > kRefIncrement
    THEN [count |-> fetch_sub(v), ret |-> v # kRefIncrement]
    ELSE [count |-> v, ret |-> FALSE]

(* RefcountAndFlags::Decrement: `loaded` is what the acquire load read, v  *)
(* is count_ when the fetch_sub is reached.  The && skips the fetch_sub    *)
(* when the load read kRefIncrement.                                       *)
Decrement(loaded, v) ==
  IF loaded # kRefIncrement
    THEN [count |-> fetch_sub(v), ret |-> v # kRefIncrement]
    ELSE [count |-> v, ret |-> FALSE]

\* A DecrementExpectHighRefcount that compares without subtracting.
DecrementExpectHighRefcount_NoSub(v) ==
  [count |-> v, ret |-> v # kRefIncrement]

\* A DecrementExpectHighRefcount that tests the value it has stored.
DecrementExpectHighRefcount_TestStored(v) ==
  [count |-> fetch_sub(v), ret |-> fetch_sub(v) > 0]

(* RefcountAndFlags::DecrementExpectHighRefcount on count_ = v.            *)
DecrementExpectHighRefcount(v) ==
  [count |-> fetch_sub(v), ret |-> v # kRefIncrement]

(* RefcountAndFlags::Get: count_ >> kNumFlags.                             *)
Get(v) == v \div (2 ^ kNumFlags)

\* An IsOne that compares Get() with one.
IsOne_Get(v) == Get(v) = 1

(* RefcountAndFlags::IsOne                                                 *)
IsOne(v) == v = kRefIncrement

(* RefcountAndFlags::IsImmortal: (count_ & kImmortalFlag) != 0.            *)
IsImmortal(v) == v % (2 * kImmortalFlag) # 0

NoRet == [op |-> "none", t |-> 0, before |-> 0, loaded |-> 0, val |-> FALSE]

\* References held on the node, by all threads.
RECURSIVE SumRefs(_)
SumRefs(T) ==
  IF T = {} THEN 0
  ELSE LET t == CHOOSE x \in T : TRUE IN refs[t] + SumRefs(T \ {t})

HeldRefs == SumRefs(Threads)

(* A counter made by RefcountAndFlags(): count_{kRefIncrement}, the one    *)
(* reference being the creator's.                                          *)
DefaultConstructed ==
  /\ ctor = "default"
  /\ count_ = kRefIncrement
  /\ refs = [t \in Threads |-> IF t = 1 THEN 1 ELSE 0]
  /\ rpc = [t \in Threads |-> "idle"]
  /\ refcount = [t \in Threads |-> 0]
  /\ destroys = 0
  /\ calls = 0
  /\ ret = NoRet

\* The values an immortal counter starts a run with: kImmortalFlag, and
\* the two odd values farthest from it, where the next add or subtract
\* wraps around.
ImmortalStarts == {kImmortalFlag, MaxInt32, MinInt32 + 1}

(* A counter made by RefcountAndFlags(Immortal): count_(kImmortalFlag),    *)
(* and the calls made on it so far.  Nobody owns a reference.              *)
ImmortalConstructed ==
  /\ ctor = "Immortal"
  /\ count_ \in ImmortalStarts
  /\ refs = [t \in Threads |-> 0]
  /\ rpc = [t \in Threads |-> "idle"]
  /\ refcount = [t \in Threads |-> 0]
  /\ destroys = 0
  /\ calls = 0
  /\ ret = NoRet

\* Thread t may start a call on the node: the node is not destroyed, and t
\* holds a reference to it (anyone may call on an immortal node).
MayCall(t) ==
  /\ rpc[t] = "idle"
  /\ destroys = 0
  /\ IF ctor = "Immortal" THEN calls < MaxCalls ELSE refs[t] >= 1

\* refs and calls after thread t's call has taken or released d references.
Counted(t, d) ==
  /\ refs' = IF ctor = "Immortal" THEN refs
                                   ELSE [refs EXCEPT ![t] = refs[t] + d]
  /\ calls' = IF ctor = "Immortal" /\ rpc[t] = "idle" THEN calls + 1
                                                         ELSE calls

(* CordRep::Ref                                                            *)
Ref(t) ==
  /\ MayCall(t)
  /\ ctor = "default" => HeldRefs < MaxRefs
  /\ count_' = Increment(count_)
  /\ Counted(t, 1)
  /\ ret' = [op |-> "Ref", t |-> t, before |-> count_, loaded |-> 0,
             val |-> TRUE]
  /\ UNCHANGED <<ctor, rpc, refcount, destroys>>
  /\ UNCHANGED <<handleVars, repVars, extVars>>

(* CordRep::Unref: Destroy(rep) when DecrementExpectHighRefcount() returns *)
(* false.                                                                  *)
Unref(t) ==
  LET r == DecrementExpectHighRefcount(count_) IN
  /\ MayCall(t)
  /\ count_' = r.count
  /\ Counted(t, -1)
  /\ destroys' = IF ~r.ret THEN destroys + 1 ELSE destroys
  /\ ret' = [op |-> "DecrementExpectHighRefcount", t |-> t,
             before |-> count_, loaded |-> 0, val |-> r.ret]
  /\ UNCHANGED <<ctor, rpc, refcount>>
  /\ UNCHANGED <<handleVars, repVars, extVars>>

(* RefcountAndFlags::Decrement, by a thread that gives up a reference:     *)
(* the acquire load.                                                       *)
DecrementLoad(t) ==
  /\ MayCall(t)
  /\ refcount' = [refcount EXCEPT ![t] = count_]
  /\ rpc' = [rpc EXCEPT ![t] = "loaded"]
  /\ Counted(t, 0)
  /\ ret' = NoRet
  /\ UNCHANGED <<count_, ctor, destroys>>
  /\ UNCHANGED <<handleVars, repVars, extVars>>

(* RefcountAndFlags::Decrement: the test, the fetch_sub and the return.    *)
DecrementReturn(t) ==
  LET r == Decrement(refcount[t], count_) IN
  /\ rpc[t] = "loaded"
  /\ count_' = r.count
  /\ Counted(t, -1)
  /\ rpc' = [rpc EXCEPT ![t] = "idle"]
  /\ refcount' = [refcount EXCEPT ![t] = 0]
  /\ ret' = [op |-> "Decrement", t |-> t, before |-> count_,
             loaded |-> refcount[t], val |-> r.ret]
  /\ UNCHANGED <<ctor, destroys>>
  /\ UNCHANGED <<handleVars, repVars, extVars>>

(* A call of RefcountAndFlags::IsOne.                                      *)
CallIsOne(t) ==
  /\ MayCall(t)
  /\ Counted(t, 0)
  /\ ret' = [op |-> "IsOne", t |-> t, before |-> count_, loaded |-> 0,
             val |-> IsOne(count_)]
  /\ UNCHANGED <<count_, ctor, rpc, refcount, destroys>>
  /\ UNCHANGED <<handleVars, repVars, extVars>>

(* Thread t hands one of its references to thread u: the counter is not    *)
(* touched.                                                                *)
Give(t, u) ==
  /\ ctor = "default"
  /\ MayCall(t)
  /\ u # t
  /\ refs' = [refs EXCEPT ![t] = refs[t] - 1, ![u] = refs[u] + 1]
  /\ ret' = NoRet
  /\ UNCHANGED <<count_, ctor, rpc, refcount, destroys, calls>>
  /\ UNCHANGED <<handleVars, repVars, extVars>>

RefNext ==
  \/ \E t \in Threads : Ref(t)
  \/ \E t \in Threads : Unref(t)
  \/ \E t \in Threads : DecrementLoad(t)
  \/ \E t \in Threads : DecrementReturn(t)
  \/ \E t \in Threads : CallIsOne(t)
  \/ \E t, u \in Threads : Give(t, u)

----------------------------------------------------------------------------
(* CordRepKind, and the sizes of flat nodes (cord_rep_flat.h).  size_t is  *)
(* 64 bits wide and no value below comes near its end.                     *)
SUBSTRING == 1
EXTERNAL == 5
FLAT == 6
MAX_FLAT_TAG == 248

\* offsetof(CordRep, storage): an 8 byte length, the 4 byte refcount and
\* the tag.
kFlatOverhead == 13
kMinFlatSize == 32
kMaxFlatSize == 4096
kMaxFlatLength == kMaxFlatSize - kFlatOverhead
kMinFlatLength == kMinFlatSize - kFlatOverhead
kMaxLargeFlatSize == 256 * 1024
kMaxLargeFlatLength == kMaxLargeFlatSize - kFlatOverhead
kTagBase == FLAT - 4

FlatTags == FLAT..MAX_FLAT_TAG

\* A size-to-tag mapping that forgets to take off the 512 bytes the first
\* band covers.
AllocatedSizeToTagUnchecked_NoBandOffset(size) ==
  (IF size <= 512 THEN kTagBase + size \div 8
   ELSE IF size <= 8192
     THEN kTagBase + 512 \div 8 + size \div 64
     ELSE kTagBase + 512 \div 8 + ((8192 - 512) \div 64)
            + size \div 4096 - 8192 \div 4096) % 256

(* AllocatedSizeToTagUnchecked, with its cast to uint8_t.                  *)
AllocatedSizeToTagUnchecked(size) ==
  (IF size <= 512 THEN kTagBase + size \div 8
   ELSE IF size <= 8192
     THEN kTagBase + 512 \div 8 + size \div 64 - 512 \div 64
     ELSE kTagBase + 512 \div 8 + ((8192 - 512) \div 64)
            + size \div 4096 - 8192 \div 4096) % 256

(* TagToAllocatedSize                                                      *)
TagToAllocatedSize(t) ==
  IF t <= kTagBase + 512 \div 8
    THEN t * 8 - kTagBase * 8
  ELSE IF t <= kTagBase + (512 \div 8) + ((8192 - 512) \div 64)
    THEN 512 + t * 64 - kTagBase * 64 - (512 \div 8) * 64
    ELSE 8192 + t * 4096 - kTagBase * 4096
           - ((512 \div 8) + ((8192 - 512) \div 64)) * 4096

(* RoundUp(n, m) for a power of two m: (n + m - 1) & (0 - m) clears the    *)
(* bits below m.                                                           *)
RoundUp(n, m) == (n + m - 1) - ((n + m - 1) % m)

\* A rounding that takes 8 bytes for the granularity of every size.
RoundUpForTag_Always8(size) == RoundUp(size, 8)

(* RoundUpForTag                                                           *)
RoundUpForTag(size) ==
  RoundUp(size, IF size <= 512 THEN 8 ELSE IF size <= 8192 THEN 64 ELSE 4096)

(* AllocatedSizeToTag; its assert is AllocatedSizeToTagAssert.             *)
AllocatedSizeToTag(size) == AllocatedSizeToTagUnchecked(size)

AllocatedSizeToTagAssert(size) ==
  AllocatedSizeToTagUnchecked(size) <= MAX_FLAT_TAG

\* A NewImpl that allocates the bytes asked for, not rounded up.
NewImpl_NoRound(max_flat_size, len) ==
  LET l == IF len <= kMinFlatLength THEN kMinFlatLength
           ELSE IF len > max_flat_size - kFlatOverhead
             THEN max_flat_size - kFlatOverhead
             ELSE len
      size == l + kFlatOverhead
  IN [size |-> size, tag |-> AllocatedSizeToTag(RoundUpForTag(size))]

(* CordRepFlat::NewImpl<max_flat_size>(len): the size handed to            *)
(* ::operator new and the tag stored in the node.                          *)
NewImpl(max_flat_size, len) ==
  LET l == IF len <= kMinFlatLength THEN kMinFlatLength
           ELSE IF len > max_flat_size - kFlatOverhead
             THEN max_flat_size - kFlatOverhead
             ELSE len
      size == RoundUpForTag(l + kFlatOverhead)
  IN [size |-> size, tag |-> AllocatedSizeToTag(size)]

(* CordRepFlat::New(len) and CordRepFlat::New(Large, len)                  *)
New(large, len) ==
  IF large THEN NewImpl(kMaxLargeFlatSize, len) ELSE NewImpl(kMaxFlatSize, len)

(* CordRepFlat::Delete: the size handed to the sized ::operator delete.    *)
FlatDelete(t) == TagToAllocatedSize(t)

\* The sizes tried: every size of the two lower bands, and in the 4 KiB
\* band the sizes around every multiple of 4 KiB.
Sizes ==
  (kMinFlatSize..8192)
    \cup {x \in {m * 4096 + d : m \in 2..(kMaxLargeFlatSize \div 4096),
                                d \in (-Near)..Near} :
            x <= kMaxLargeFlatSize}

\* The lengths tried: those that give the sizes above, the lengths below
\* kMinFlatLength, and lengths past the largest flat.
Lens ==
  (0..kMinFlatLength)
    \cup {x - kFlatOverhead : x \in Sizes}
    \cup {kMaxLargeFlatLength + d : d \in 1..Near}

NoFlat == [op |-> "none", large |-> FALSE, len |-> 0, size |-> 0, tag |-> 0,
           freed |-> 0]

(* A call of CordRepFlat::New.                                             *)
CallNew(large, len) ==
  /\ flat = NoFlat
  /\ flat' = [op |-> "New", large |-> large, len |-> len,
              size |-> New(large, len).size, tag |-> New(large, len).tag,
              freed |-> 0]
  /\ UNCHANGED <<handleVars, refVars, treeVars, inlineVars, extVars>>

(* A call of CordRepFlat::Delete on the node New has made.                 *)
CallDelete ==
  /\ flat.op = "New"
  /\ flat' = [flat EXCEPT !.op = "Delete", !.freed = FlatDelete(flat.tag)]
  /\ UNCHANGED <<handleVars, refVars, treeVars, inlineVars, extVars>>

(* A call of RoundUpForTag, and of AllocatedSizeToTag on its result.       *)
CallRoundUpForTag(n) ==
  /\ flat = NoFlat
  /\ flat' = [op |-> "RoundUpForTag", large |-> FALSE, len |-> n,
              size |-> RoundUpForTag(n),
              tag |-> AllocatedSizeToTag(RoundUpForTag(n)), freed |-> 0]
  /\ UNCHANGED <<handleVars, refVars, treeVars, inlineVars, extVars>>

(* A call of TagToAllocatedSize.                                           *)
CallTagToAllocatedSize(t) ==
  /\ flat = NoFlat
  /\ flat' = [op |-> "TagToAllocatedSize", large |-> FALSE, len |-> 0,
              size |-> TagToAllocatedSize(t), tag |-> t, freed |-> 0]
  /\ UNCHANGED <<handleVars, refVars, treeVars, inlineVars, extVars>>

FlatNext ==
  \/ flat = NoFlat /\ \E large \in BOOLEAN, len \in Lens : CallNew(large, len)
  \/ flat = NoFlat /\ \E n \in Sizes : CallRoundUpForTag(n)
  \/ flat = NoFlat /\ \E t \in FlatTags : CallTagToAllocatedSize(t)
  \/ CallDelete

----------------------------------------------------------------------------
(* CordRep nodes: flat, external and substring (cord_internal.h).  One     *)
(* caller makes nodes, takes substrings and drops its references; a freed  *)
(* node is not allocated again.                                            *)
Nodes == 1..MaxNodes

NoNode == [st |-> "free", tag |-> 0, length |-> 0, start |-> 0,
           child |-> Null, count |-> 0, base |-> Null, arity |-> 0]

NoCall == [op |-> "none", rep |-> Null, pos |-> 0, n |-> 0, result |-> Null]

\* operator new: a node that is not allocated.
NewNode == Min({x \in Nodes : heap[x].st = "free"})

Live(x) == x \in Nodes /\ heap[x].st = "live"

(* CordRep::IsSubstring, IsExternal, IsFlat                                *)
IsSubstring(x) == heap[x].tag = SUBSTRING
IsExternal(x) == heap[x].tag = EXTERNAL
IsFlat(x) == heap[x].tag >= FLAT

\* IsDataEdge(rep), which Substring requires: a flat or external node, or a
\* substring of one.
IsDataEdge(x) ==
  \/ IsExternal(x) \/ IsFlat(x)
  \/ /\ IsSubstring(x)
     /\ IsExternal(heap[x].child) \/ IsFlat(heap[x].child)

\* The substring nodes that refer to x.
Parents(x) ==
  {p \in Nodes : Live(p) /\ IsSubstring(p) /\ heap[p].child = x}

\* The references on x: the caller's and those of substring nodes.
RefsOn(x) == owned[x] + Cardinality(Parents(x))

(* CordRepFlat::Create(data) for data of `len` bytes.                      *)
CallCreateFlat(len) ==
  /\ \E x \in Nodes : heap[x].st = "free"
  /\ heap' = [heap EXCEPT ![NewNode] =
                [st |-> "live", tag |-> New(FALSE, len).tag, length |-> len,
                 start |-> 0, child |-> Null, count |-> kRefIncrement,
                 base |-> Null, arity |-> 0]]
  /\ owned' = [owned EXCEPT ![NewNode] = 1]
  /\ last' = [op |-> "CreateFlat", rep |-> Null, pos |-> 0, n |-> len,
              result |-> NewNode]
  /\ UNCHANGED <<released, flat, handleVars, refVars, inlineVars, extVars>>

(* An external node as its maker hands it over: `len` bytes of a buffer of *)
(* its own, with a releaser that takes `arity` arguments.                  *)
CallNewExternal(len, arity) ==
  /\ \E x \in Nodes : heap[x].st = "free"
  /\ heap' = [heap EXCEPT ![NewNode] =
                [st |-> "live", tag |-> EXTERNAL, length |-> len,
                 start |-> 0, child |-> Null, count |-> kRefIncrement,
                 base |-> NewNode, arity |-> arity]]
  /\ owned' = [owned EXCEPT ![NewNode] = 1]
  /\ last' = [op |-> "NewExternal", rep |-> Null, pos |-> 0, n |-> len,
              result |-> NewNode]
  /\ UNCHANGED <<released, flat, handleVars, refVars, inlineVars, extVars>>

(* CordRepSubstring::Create(child, pos, n): its asserts and its node type  *)
(* check are the guard.  The caller's reference on child becomes the new   *)
(* node's.                                                                 *)
CallCreate(child, pos, n) ==
  /\ Live(child)
  /\ owned[child] >= 1
  /\ n > 0
  /\ n < heap[child].length
  /\ pos < heap[child].length
  /\ n <= heap[child].length - pos
  /\ IsExternal(child) \/ IsFlat(child)
  /\ \E x \in Nodes : heap[x].st = "free"
  /\ heap' = [heap EXCEPT ![NewNode] =
                [st |-> "live", tag |-> SUBSTRING, length |-> n,
                 start |-> pos, child |-> child, count |-> kRefIncrement,
                 base |-> Null, arity |-> 0]]
  /\ owned' = [owned EXCEPT ![child] = owned[child] - 1, ![NewNode] = 1]
  /\ last' = [op |-> "Create", rep |-> child, pos |-> pos, n |-> n,
              result |-> NewNode]
  /\ UNCHANGED <<released, flat, handleVars, refVars, inlineVars, extVars>>

\* A Substring without its shortcut for the whole of rep.
IsFullRange_Never(x, n) == FALSE

(* CordRepSubstring::Substring: `if (n == rep->length)`.                   *)
IsFullRange(x, n) == n = heap[x].length

\* A Substring that does not look through rep when rep is a substring.
SubstringNode_NoRebase(x, pos, n) ==
  [st |-> "live", tag |-> SUBSTRING, length |-> n, start |-> pos,
   child |-> x, count |-> kRefIncrement, base |-> Null, arity |-> 0]

\* A Substring that moves pos by the length of rep, not by its start.
SubstringNode_RebaseByLength(x, pos, n) ==
  [st |-> "live", tag |-> SUBSTRING, length |-> n,
   start |-> IF IsSubstring(x) THEN pos + heap[x].length ELSE pos,
   child |-> IF IsSubstring(x) THEN heap[x].child ELSE x,
   count |-> kRefIncrement, base |-> Null, arity |-> 0]

(* CordRepSubstring::Substring past the shortcut: the node it makes.       *)
SubstringNode(x, pos, n) ==
  [st |-> "live", tag |-> SUBSTRING, length |-> n,
   start |-> IF IsSubstring(x) THEN pos + heap[x].start ELSE pos,
   child |-> IF IsSubstring(x) THEN heap[x].child ELSE x,
   count |-> kRefIncrement, base |-> Null, arity |-> 0]

(* CordRepSubstring::Substring(rep, pos, n): its asserts and what its      *)
(* comment requires are the guard.  It adopts no reference.                *)
CallSubstring(x, pos, n) ==
  /\ Live(x)
  /\ owned[x] >= 1
  /\ IsDataEdge(x)
  /\ n # 0
  /\ pos < heap[x].length
  /\ n <= heap[x].length - pos
  /\ IF IsFullRange(x, n)
       THEN /\ RefsOn(x) < MaxRefs
            /\ heap' = [heap EXCEPT ![x].count = Increment(@)]
            /\ owned' = [owned EXCEPT ![x] = owned[x] + 1]
            /\ last' = [op |-> "Substring", rep |-> x, pos |-> pos,
                        n |-> n, result |-> x]
       ELSE LET node == SubstringNode(x, pos, n) IN
            /\ \E y \in Nodes : heap[y].st = "free"
            /\ RefsOn(node.child) < MaxRefs
            /\ heap' = [heap EXCEPT ![NewNode] = node,
                                    ![node.child].count = Increment(@)]
            /\ owned' = [owned EXCEPT ![NewNode] = 1]
            /\ last' = [op |-> "Substring", rep |-> x, pos |-> pos,
                        n |-> n, result |-> NewNode]
  /\ UNCHANGED <<released, flat, handleVars, refVars, inlineVars, extVars>>

(* InvokeReleaser: a releaser that can take the string_view gets it        *)
(* (Rank1), one that cannot is called without arguments (Rank0).           *)
InvokeReleaser(arity, data) == IF arity = 1 THEN <<data>> ELSE <<>>

\* A destructor that hands the releaser an empty view.
ExternalDelete_EmptyView(node) ==
  InvokeReleaser(node.arity, [base |-> node.base, length |-> 0])

(* CordRepExternal::Delete: releaser_invoker is Release, which deletes the *)
(* CordRepExternalImpl; its destructor invokes the releaser with           *)
(* string_view(base, length).  The value is the releaser's arguments.      *)
ExternalDelete(node) ==
  InvokeReleaser(node.arity, [base |-> node.base, length |-> node.length])

\* Freed memory: what it held is gone.
Deleted == [NoNode EXCEPT !.st = "deleted"]

(* CordRep::Destroy(rep) on the nodes h with the releaser calls rel: a     *)
(* substring drops its reference on its child and is freed, an external    *)
(* node has its releaser invoked and is freed, a flat node is freed.       *)
RECURSIVE Destroy(_, _, _)
Destroy(h, rel, x) ==
  LET gone == [h EXCEPT ![x] = Deleted] IN
  IF h[x].tag = SUBSTRING
    THEN LET c == h[x].child
             r == DecrementExpectHighRefcount(h[c].count)
             dropped == [gone EXCEPT ![c].count = r.count]
         IN IF r.ret THEN [heap |-> dropped, released |-> rel]
                     ELSE Destroy(dropped, rel, c)
  ELSE IF h[x].tag = EXTERNAL
    THEN [heap |-> gone,
          released |-> [rel EXCEPT ![x] = Append(@, ExternalDelete(h[x]))]]
    ELSE [heap |-> gone, released |-> rel]

(* CordRep::Unref(rep), by the caller on a reference it holds.            *)
CallUnref(x) ==
  LET r == DecrementExpectHighRefcount(heap[x].count)
      dropped == [heap EXCEPT ![x].count = r.count]
      d == IF r.ret THEN [heap |-> dropped, released |-> released]
                    ELSE Destroy(dropped, released, x)
  IN
  /\ Live(x)
  /\ owned[x] >= 1
  /\ heap' = d.heap
  /\ released' = d.released
  /\ owned' = [owned EXCEPT ![x] = owned[x] - 1]
  /\ last' = [op |-> "Unref", rep |-> x, pos |-> 0, n |-> 0, result |-> Null]
  /\ UNCHANGED <<flat, handleVars, refVars, inlineVars, extVars>>

\* The lengths of the flat and external nodes made.
LeafLens == (MaxLen - 1)..MaxLen

TreeNext ==
  \/ \E len \in LeafLens : CallCreateFlat(len)
  \/ \E len \in LeafLens, arity \in {0, 1} : CallNewExternal(len, arity)
  \/ \E x \in Nodes, pos \in 0..MaxLen, n \in 1..MaxLen : CallCreate(x, pos, n)
  \/ \E x \in Nodes, pos \in 0..MaxLen, n \in 1..MaxLen :
       CallSubstring(x, pos, n)
  \/ \E x \in Nodes : CallUnref(x)

(* No node is allocated.                                                   *)
NoNodes ==
  /\ heap = [x \in Nodes |-> NoNode]
  /\ owned = [x \in Nodes |-> 0]
  /\ released = [x \in Nodes |-> <<>>]
  /\ last = NoCall

----------------------------------------------------------------------------
(* InlineData (cord_internal.h): 16 bytes, the tag in byte 0 and up to 15  *)
(* characters after it, or a cordz_info word and a CordRep pointer.  Bytes *)
(* are numbers of 0..255 in memory order; the host is little-endian with   *)
(* 64-bit pointers.                                                        *)
kMaxInline == 15

\* Eight bytes of memory holding the value v < 2^31, lowest byte first.
LittleEndian64(v) ==
  [i \in 1..8 |-> IF i <= 3 THEN (v \div 256 ^ (i - 1)) % 256
                  ELSE IF i = 4 THEN v \div 16777216 ELSE 0]

\* The value held by eight bytes of memory, lowest byte first.
ToHost64(b) == b[1] + 256 * b[2] + 65536 * b[3] + 16777216 * b[4]

(* LittleEndianByte(value): a word whose first byte in memory is value.    *)
LittleEndianByte(value) == [i \in 1..8 |-> IF i = 1 THEN value ELSE 0]

(* InlineData::kNullCordzInfo                                              *)
kNullCordzInfo == LittleEndianByte(1)

(* GetOrNull(data, pos)                                                    *)
GetOrNull(data, pos) == IF pos < Len(data) THEN data[pos + 1] ELSE 0

\* memset(dst + off, 0, len) and memcpy(dst + off, bytes, Len(bytes))
Memset0(dst, off, len) ==
  [i \in 1..Len(dst) |-> IF i - 1 >= off /\ i - 1 < off + len THEN 0
                         ELSE dst[i]]

Memcpy(dst, off, bytes) ==
  [i \in 1..Len(dst) |->
     IF i - 1 >= off /\ i - 1 < off + Len(bytes) THEN bytes[i - off]
     ELSE dst[i]]

\* A SmallMemmove that never pads the destination.
SmallMemmove_NoNullify(nullify_tail, dst, src, n) ==
  IF n >= 8
    THEN Memcpy(Memcpy(dst, 0, SubSeq(src, 1, 8)), n - 8,
                SubSeq(src, n - 7, n))
  ELSE IF n >= 4
    THEN Memcpy(Memcpy(dst, 0, SubSeq(src, 1, 4)), n - 4,
                SubSeq(src, n - 3, n))
    ELSE IF n # 0
      THEN Memcpy(Memcpy(Memcpy(dst, 0, <<src[1]>>),
                         n \div 2, <<src[n \div 2 + 1]>>),
                  n - 1, <<src[n]>>)
      ELSE dst

(* SmallMemmove<nullify_tail>(dst, src, n): the bytes at dst afterwards.   *)
SmallMemmove(nullify_tail, dst, src, n) ==
  IF n >= 8
    THEN LET buf1 == SubSeq(src, 1, 8)
             buf2 == SubSeq(src, n - 7, n)
             d1 == IF nullify_tail THEN Memset0(dst, 7, 8) ELSE dst
         IN Memcpy(Memcpy(d1, 0, buf1), n - 8, buf2)
  ELSE IF n >= 4
    THEN LET buf1 == SubSeq(src, 1, 4)
             buf2 == SubSeq(src, n - 3, n)
             d1 == IF nullify_tail
                     THEN Memset0(Memset0(dst, 4, 4), 7, 8) ELSE dst
         IN Memcpy(Memcpy(d1, 0, buf1), n - 4, buf2)
    ELSE LET d1 == IF n # 0
                     THEN Memcpy(Memcpy(Memcpy(dst, 0, <<src[1]>>),
                                        n \div 2, <<src[n \div 2 + 1]>>),
                                 n - 1, <<src[n]>>)
                     ELSE dst
         IN IF nullify_tail THEN Memset0(Memset0(d1, 7, 8), n, 8) ELSE d1

(* Rep::tag, an int8_t, and Rep::set_tag                                   *)
tag(d) == IF d[1] >= 128 THEN d[1] - 256 ELSE d[1]

set_tag(d, rhs) == [d EXCEPT ![1] = rhs % 256]

(* Rep::as_chars: the 15 bytes after the tag.                              *)
as_chars(d) == SubSeq(d, 2, kMaxInline + 1)

(* is_tree, inline_size, is_empty                                          *)
is_tree(d) == d[1] % 2 # 0

inline_size(d) == tag(d) \div 2

is_empty(d) == tag(d) = 0

(* Rep::tree and Rep::cordz_info, InlineData::as_tree, is_profiled and     *)
(* cordz_info (the pointer, without its low bit)                           *)
as_tree(d) == ToHost64(SubSeq(d, 9, 16))

is_profiled(d) == SubSeq(d, 1, 8) # kNullCordzInfo

cordz_info(d) == ToHost64(SubSeq(d, 1, 8)) - 1

(* Rep(): data{0}                                                          *)
DefaultRep == [i \in 1..(kMaxInline + 1) |-> 0]

(* Rep(absl::string_view chars)                                            *)
RepOfChars(chars) ==
  [i \in 1..(kMaxInline + 1) |->
     IF i = 1 THEN (Len(chars) * 2) % 256 ELSE GetOrNull(chars, i - 2)]

(* Rep(CordRep* rep): as_tree(rep), with cordz_info = kNullCordzInfo       *)
RepOfTree(tree) == kNullCordzInfo \o LittleEndian64(tree)

\* A make_tree that leaves the first word as it was.
make_tree_KeepInfo(d, tree) == SubSeq(d, 1, 8) \o LittleEndian64(tree)

(* Rep::make_tree(tree)                                                    *)
make_tree(d, tree) ==
  LET d1 == SubSeq(d, 1, 8) \o LittleEndian64(tree)
  IN kNullCordzInfo \o SubSeq(d1, 9, 16)

(* InlineData::set_cordz_info(cordz_info): the pointer with its low bit    *)
(* set, stored lowest byte first.                                          *)
set_cordz_info(d, info) == LittleEndian64(info + 1) \o SubSeq(d, 9, 16)

(* InlineData::set_inline_data(data, n)                                    *)
set_inline_data(d, data, n) ==
  LET d1 == set_tag(d, n * 2)
  IN <<d1[1]>> \o SmallMemmove(TRUE, as_chars(d1), data, n)

\* A uint64_t is its eight base-256 digits, the highest first.
\* memcpy(&x, chars + off, 8) on the little-endian host.
Load64(chars, off) == [i \in 1..8 |-> chars[off + 9 - i]]

(* absl::big_endian::FromHost64 on the little-endian host: a byte swap.    *)
FromHost64(x) == [i \in 1..8 |-> x[9 - i]]

\* x < y for two uint64_t that differ.
Less64(x, y) ==
  LET i == Min({j \in 1..8 : x[j] # y[j]}) IN x[i] < y[i]

\* A Compare that orders the words as the host has loaded them.
Compare_NoByteSwap(lhs, rhs) ==
  LET x1 == Load64(as_chars(lhs), 0)
      y1 == Load64(as_chars(rhs), 0)
      x2 == Load64(as_chars(lhs), 7)
      y2 == Load64(as_chars(rhs), 7)
  IN IF x1 = y1
       THEN IF x2 = y2
              THEN IF inline_size(lhs) = inline_size(rhs) THEN 0
                   ELSE IF inline_size(lhs) < inline_size(rhs) THEN -1 ELSE 1
              ELSE IF Less64(x2, y2) THEN -1 ELSE 1
       ELSE IF Less64(x1, y1) THEN -1 ELSE 1

(* InlineData::Compare(lhs, rhs)                                           *)
Compare(lhs, rhs) ==
  LET x1 == Load64(as_chars(lhs), 0)
      y1 == Load64(as_chars(rhs), 0)
      x2 == Load64(as_chars(lhs), 7)
      y2 == Load64(as_chars(rhs), 7)
  IN IF x1 = y1
       THEN IF x2 = y2
              THEN IF inline_size(lhs) = inline_size(rhs) THEN 0
                   ELSE IF inline_size(lhs) < inline_size(rhs) THEN -1 ELSE 1
              ELSE IF Less64(FromHost64(x2), FromHost64(y2)) THEN -1 ELSE 1
       ELSE IF Less64(FromHost64(x1), FromHost64(y1)) THEN -1 ELSE 1

\* The byte values tried: zero, a small one, and one with the high bit set.
ByteValues == {0, 1, 255}

\* The byte strings tried: a run of one filler byte of length 0, 4, 7 or 12
\* and then up to MaxStr bytes of ByteValues, 15 bytes at most.
RECURSIVE StringsOf(_)
StringsOf(k) ==
  IF k = 0 THEN {<<>>}
  ELSE {Append(q, b) : q \in StringsOf(k - 1), b \in ByteValues}
         \cup StringsOf(k - 1)

Filler(p) == [i \in 1..p |-> 7]

Strings ==
  {q \in {Filler(p) \o t : p \in {0, 4, 7, 12}, t \in StringsOf(MaxStr)} :
     Len(q) <= kMaxInline}

\* The addresses of CordRep nodes, and those of CordzInfo objects.
RepPointers == {16, 4664}
InfoPointers == {32, 4680}

NoInlineCall ==
  [op |-> "none", chars |-> <<>>, tree |-> Null, before |-> DefaultRep,
   ret |-> 0]

(* InlineData(string_view sv, nullptr)                                     *)
CallInlineData(chars) ==
  /\ icall = NoInlineCall
  /\ rep_' = RepOfChars(chars)
  /\ icall' = [NoInlineCall EXCEPT !.op = "InlineData", !.chars = chars]
  /\ UNCHANGED <<handleVars, refVars, flat, treeVars, extVars>>

(* InlineData(CordRep* rep), rep not null                                  *)
CallInlineDataTree(tree) ==
  /\ icall = NoInlineCall
  /\ tree # Null
  /\ rep_' = RepOfTree(tree)
  /\ icall' = [NoInlineCall EXCEPT !.op = "InlineDataTree", !.tree = tree]
  /\ UNCHANGED <<handleVars, refVars, flat, treeVars, extVars>>

(* set_inline_data(data, n) on the object as it is                         *)
CallSetInlineData(chars) ==
  /\ icall = NoInlineCall
  /\ Len(chars) <= kMaxInline
  /\ rep_' = set_inline_data(rep_, chars, Len(chars))
  /\ icall' = [NoInlineCall EXCEPT !.op = "set_inline_data",
                                   !.chars = chars, !.before = rep_]
  /\ UNCHANGED <<handleVars, refVars, flat, treeVars, extVars>>

(* make_tree(rep) on the object as it is                                   *)
CallMakeTree(tree) ==
  /\ icall = NoInlineCall
  /\ rep_' = make_tree(rep_, tree)
  /\ icall' = [NoInlineCall EXCEPT !.op = "make_tree", !.tree = tree,
                                   !.before = rep_]
  /\ UNCHANGED <<handleVars, refVars, flat, treeVars, extVars>>

(* set_cordz_info(info) on a tree                                          *)
CallSetCordzInfo(info) ==
  /\ icall = NoInlineCall
  /\ is_tree(rep_)
  /\ rep_' = set_cordz_info(rep_, info)
  /\ icall' = [NoInlineCall EXCEPT !.op = "set_cordz_info", !.tree = info,
                                   !.before = rep_]
  /\ UNCHANGED <<handleVars, refVars, flat, treeVars, extVars>>

(* Compare(rhs) on an inline object, rhs an inline value made of chars     *)
CallCompare(chars) ==
  /\ icall = NoInlineCall
  /\ ~is_tree(rep_)
  /\ icall' = [NoInlineCall EXCEPT !.op = "Compare", !.chars = chars,
                                   !.ret = Compare(rep_, RepOfChars(chars))]
  /\ UNCHANGED <<rep_, handleVars, refVars, flat, treeVars, extVars>>

\* The caller is done with what the last call returned.
InlineReturn ==
  /\ icall # NoInlineCall
  /\ icall' = NoInlineCall
  /\ UNCHANGED <<rep_, handleVars, refVars, flat, treeVars, extVars>>

InlineNext ==
  \/ icall = NoInlineCall /\ \E chars \in Strings : CallInlineData(chars)
  \/ icall = NoInlineCall /\ \E tree \in RepPointers : CallInlineDataTree(tree)
  \/ icall = NoInlineCall /\ \E chars \in Strings : CallSetInlineData(chars)
  \/ icall = NoInlineCall /\ \E tree \in RepPointers : CallMakeTree(tree)
  \/ icall = NoInlineCall /\ \E info \in InfoPointers : CallSetCordzInfo(info)
  \/ icall = NoInlineCall /\ \E chars \in Strings : CallCompare(chars)
  \/ InlineReturn

(* InlineData(): an empty inline value, no call made.                      *)
InlineAtRest == rep_ = DefaultRep /\ icall = NoInlineCall

(* No call on the node representation has been made.                       *)
RepAtRest == flat = NoFlat /\ NoNodes /\ InlineAtRest

----------------------------------------------------------------------------
(* CordzHandle::Delete on a null handle.                                   *)

\* No call Delete(nullptr) has been made.
NoNullCall == "none"

\* The process runs: no assert has aborted it.
ProcessRuns == nullcall # "aborted"

(* CordzHandle::Delete(nullptr).  The first statement is assert(handle):   *)
(* it aborts the process in a build without NDEBUG and is no code at all   *)
(* in a build with NDEBUG.  The body is wrapped in `if (handle)`, so the   *)
(* NDEBUG build skips it and returns.  The build is chosen once: after a   *)
(* call that returned, the assert is known to be compiled out.             *)
DeleteNull(ndebug) ==
  /\ ThreadIdle
  /\ ProcessRuns
  /\ nullcall = "returned" => ndebug
  /\ nullcall' = IF ndebug THEN "returned" ELSE "aborted"
  /\ UNCHANGED <<handleVars, refVars, repVars, mcall, poolVars, crcVars>>

(* The calls on the queue, Delete(nullptr) among them, as long as the      *)
(* process runs.                                                           *)
NullNext ==
  \/ ProcessRuns /\ ConstructHandle
  \/ ProcessRuns /\ ConstructSnapshotLock
  \/ ProcessRuns /\ \E h \in Handles : ConstructSnapshotLocked(h)
  \/ ProcessRuns /\ \E h \in Handles : DeleteCall(h)
  \/ ProcessRuns /\ \E h \in Handles : DeleteLock(h)
  \/ ProcessRuns /\ \E h \in Handles : DeleteLocked(h)
  \/ ProcessRuns /\ \E h \in Handles : DtorLock(h)
  \/ ProcessRuns /\ \E h \in Handles : DtorLocked(h)
  \/ ProcessRuns /\ \E h \in Handles : DtorDelete(h)
  \/ ProcessRuns /\ \E h \in Handles : DtorReturn(h)
  \/ \E ndebug \in BOOLEAN : DeleteNull(ndebug)

----------------------------------------------------------------------------
(* SmallMemmove on two regions of one buffer.                              *)

\* The regions start at most MaxShift bytes apart.
MaxShift == 3

\* The buffer: room for a padded destination behind every start.
BufLen == MaxShift + 1 + kMaxInline

\* The addresses a region starts at.
Starts == 1..(MaxShift + 1)

\* The contents of the buffer: all bytes differ.
Buffers == {[i \in 1..BufLen |-> i], [i \in 1..BufLen |-> 255 - i]}

(* SmallMemmove<nullify_tail>(dst, src, n) on the buffer mem, dst and src  *)
(* being addresses in it.  load is memcpy(&buf, p, k), store is            *)
(* memcpy(p, &buf, k) and zero is memset(p, 0, k).  Sizes of 4 and more    *)
(* load both words before they store any; sizes below 4 copy byte after    *)
(* byte, every assignment reading the buffer as the one before left it.    *)
SmallMemmoveAt(nullify_tail, mem, dst, src, n) ==
  LET load(m, p, k) == [i \in 1..k |-> m[p + i - 1]]
      store(m, p, b) ==
        [i \in 1..Len(m) |->
           IF i \in p..(p + Len(b) - 1) THEN b[i - p + 1] ELSE m[i]]
      zero(m, p, k) ==
        [i \in 1..Len(m) |-> IF i \in p..(p + k - 1) THEN 0 ELSE m[i]]
  IN IF n >= 8
       THEN LET buf1 == load(mem, src, 8)
                buf2 == load(mem, src + n - 8, 8)
                m1 == IF nullify_tail THEN zero(mem, dst + 7, 8) ELSE mem
                m2 == store(m1, dst, buf1)
            IN store(m2, dst + n - 8, buf2)
       ELSE IF n >= 4
         THEN LET buf1 == load(mem, src, 4)
                  buf2 == load(mem, src + n - 4, 4)
                  m1 == IF nullify_tail
                          THEN zero(zero(mem, dst + 4, 4), dst + 7, 8)
                          ELSE mem
                  m2 == store(m1, dst, buf1)
              IN store(m2, dst + n - 4, buf2)
         ELSE LET m1 == [mem EXCEPT ![dst] = mem[src]]
                  m2 == [m1 EXCEPT ![dst + (n \div 2)] = m1[src + (n \div 2)]]
                  m3 == [m2 EXCEPT ![dst + n - 1] = m2[src + n - 1]]
                  m4 == IF n # 0 THEN m3 ELSE mem
              IN IF nullify_tail
                   THEN zero(zero(m4, dst + 7, 8), dst + n, 8)
                   ELSE m4

NoMove == [op |-> "none", nullify_tail |-> FALSE, dst |-> 0, src |-> 0,
           n |-> 0, before |-> <<>>, after |-> <<>>]

(* A call SmallMemmove<nullify_tail>(buf + dst, buf + src, n).             *)
CallSmallMemmove(nullify_tail, buf, dst, src, n) ==
  /\ mcall' = [op |-> "SmallMemmove", nullify_tail |-> nullify_tail,
               dst |-> dst, src |-> src, n |-> n, before |-> buf,
               after |-> SmallMemmoveAt(nullify_tail, buf, dst, src, n)]
  /\ UNCHANGED <<handleVars, refVars, repVars, nullcall, poolVars, crcVars>>

(* The caller drops the buffer.                                            *)
MoveReturn ==
  /\ mcall # NoMove
  /\ mcall' = NoMove
  /\ UNCHANGED <<handleVars, refVars, repVars, nullcall, poolVars, crcVars>>

MoveNext ==
  \/ mcall = NoMove /\ \E nullify_tail \in BOOLEAN, buf \in Buffers,
                          dst \in Starts, src \in Starts, n \in 0..kMaxInline :
       CallSmallMemmove(nullify_tail, buf, dst, src, n)
  \/ MoveReturn

----------------------------------------------------------------------------
(* ThreadPool: a queue of functions under one mutex, worker threads that   *)
(* run WorkLoop, and the thread that owns the pool.  The critical sections *)
(* of mu_ exclude each other and none of them waits inside except through  *)
(* Await, which holds the lock only once its condition is true: each of    *)
(* them is one step.                                                       *)

\* threads_.size(): the num_threads the pool was constructed with.
NumWorkers == 2

\* The functions the owner may pass to Schedule.
MaxFuncs == 3

Workers == 1..NumWorkers

Funcs == 1..MaxFuncs

\* The functions not passed to Schedule yet.
NotScheduled == {f \in Funcs : ~runs[f].scheduled}

(* ThreadPool(num_threads): every worker at the top of WorkLoop, the queue *)
(* empty.                                                                  *)
PoolInit ==
  /\ queue_ = <<>>
  /\ wpc = [w \in Workers |-> "await"]
  /\ func = [w \in Workers |-> Null]
  /\ runs = [f \in Funcs |->
               [scheduled |-> FALSE, started |-> 0, finished |-> 0]]
  /\ tpc = "run"
  /\ joined = {}

(* ThreadPool::Schedule(func), called by the owner of the pool.            *)
Schedule(f) ==
  /\ tpc = "run"
  /\ queue_' = Append(queue_, f)
  /\ runs' = [runs EXCEPT ![f].scheduled = TRUE]
  /\ UNCHANGED <<wpc, func, tpc, joined>>
  /\ UNCHANGED <<handleVars, refVars, repVars, nullcall, mcall, crcVars>>

(* ThreadPool::WorkLoop: Await(WorkAvailable), take the front of the       *)
(* queue, unlock; a null function ends the loop, any other is called.      *)
WorkLoopTake(w) ==
  /\ wpc[w] = "await"
  /\ queue_ # <<>>
  /\ func' = [func EXCEPT ![w] = Head(queue_)]
  /\ queue_' = Tail(queue_)
  /\ IF Head(queue_) = Null
       THEN /\ wpc' = [wpc EXCEPT ![w] = "exit"]
            /\ UNCHANGED runs
       ELSE /\ wpc' = [wpc EXCEPT ![w] = "call"]
            /\ runs' = [runs EXCEPT ![Head(queue_)].started = @ + 1]
  /\ UNCHANGED <<tpc, joined>>
  /\ UNCHANGED <<handleVars, refVars, repVars, nullcall, mcall, crcVars>>

(* ThreadPool::WorkLoop: func() returns and the loop starts over.          *)
WorkLoopReturn(w) ==
  /\ wpc[w] = "call"
  /\ runs' = [runs EXCEPT ![func[w]].finished = @ + 1]
  /\ func' = [func EXCEPT ![w] = Null]
  /\ wpc' = [wpc EXCEPT ![w] = "await"]
  /\ UNCHANGED <<queue_, tpc, joined>>
  /\ UNCHANGED <<handleVars, refVars, repVars, nullcall, mcall, crcVars>>

\* A destructor that pushes one shutdown signal for the whole pool.
DtorSignal_OneSignal ==
  /\ tpc = "run"
  /\ queue_' = Append(queue_, Null)
  /\ tpc' = "join"
  /\ UNCHANGED <<wpc, func, runs, joined>>
  /\ UNCHANGED <<handleVars, refVars, repVars, nullcall, mcall, crcVars>>

(* ThreadPool::~ThreadPool: under the lock, one shutdown signal for every  *)
(* thread.                                                                 *)
DtorSignal ==
  /\ tpc = "run"
  /\ queue_' = queue_ \o [i \in 1..NumWorkers |-> Null]
  /\ tpc' = "join"
  /\ UNCHANGED <<wpc, func, runs, joined>>
  /\ UNCHANGED <<handleVars, refVars, repVars, nullcall, mcall, crcVars>>

(* ThreadPool::~ThreadPool: t.join() on the threads in their order; the    *)
(* destructor returns after the last.                                      *)
DtorJoin ==
  /\ tpc = "join"
  /\ LET t == Min(Workers \ joined)
     IN /\ wpc[t] = "exit"
        /\ joined' = joined \cup {t}
        /\ tpc' = IF joined \cup {t} = Workers THEN "done" ELSE "join"
  /\ UNCHANGED <<queue_, wpc, func, runs>>
  /\ UNCHANGED <<handleVars, refVars, repVars, nullcall, mcall, crcVars>>

PoolNext ==
  \/ NotScheduled # {} /\ Schedule(Min(NotScheduled))
  \/ \E w \in Workers : WorkLoopTake(w)
  \/ \E w \in Workers : WorkLoopReturn(w)
  \/ DtorSignal
  \/ DtorJoin

(* Scheduling: a worker that can take an entry does, a function that was   *)
(* called returns, and the destructor goes on joining.  Nothing makes the  *)
(* owner call Schedule or destroy the pool.                                *)
PoolFairness ==
  /\ \A w \in Workers : WF_vars(WorkLoopTake(w)) /\ WF_vars(WorkLoopReturn(w))
  /\ WF_vars(DtorJoin)

----------------------------------------------------------------------------
(* CrcCordState: the removed prefix and the prefix checksums of one state  *)
(* that shares its Rep with nobody.                                        *)

\* At most MaxChunks entries in prefix_crc.
MaxChunks == 2

\* Lengths of the removed prefix, and of a chunk beyond it.
MaxPrefix == 2

\* The checksums: residues, where the checksum of a ++ b is
\* crc(a) * 2^Len(b) + crc(b).
CrcMod == 7

CrcInputs == {0, 1, 3}

RECURSIVE Pow2(_)
Pow2(n) == IF n = 0 THEN 1 ELSE (2 * Pow2(n - 1)) % CrcMod

(* absl::RemoveCrc32cPrefix(prefix_crc, full_string_crc, suffix_length):   *)
(* the checksum of the suffix.                                             *)
RemoveCrc32cPrefix(prefix_crc, full_string_crc, suffix_length) ==
  (full_string_crc + CrcMod * CrcMod
     - prefix_crc * Pow2(suffix_length)) % CrcMod

(* PrefixCrc(length, crc); PrefixCrc() is PrefixCrc(0, 0).                 *)
PrefixCrc(length, crc) == [length |-> length, crc |-> crc]

(* A default-constructed Rep: nothing removed, no chunk.                   *)
EmptyRep == [removed_prefix |-> PrefixCrc(0, 0), prefix_crc |-> <<>>]

(* CrcCordState::IsNormalized                                              *)
IsNormalized(r) == r.removed_prefix.length = 0

(* CrcCordState::Normalize: the Rep it leaves.                             *)
Normalize(r) ==
  IF IsNormalized(r) \/ r.prefix_crc = <<>>
    THEN r
    ELSE [removed_prefix |-> PrefixCrc(0, 0),
          prefix_crc |->
            [i \in 1..Len(r.prefix_crc) |->
               LET remaining ==
                     r.prefix_crc[i].length - r.removed_prefix.length
               IN PrefixCrc(remaining,
                            RemoveCrc32cPrefix(r.removed_prefix.crc,
                                               r.prefix_crc[i].crc,
                                               remaining))]]

\* The removed prefixes the caller writes.
RemovedPrefixes ==
  {PrefixCrc(l, c) : l \in 0..MaxPrefix, c \in CrcInputs}

\* The chunks the caller writes behind a removed prefix of length l: a
\* prefix_crc entry counts the removed prefix in.
Chunks(l) ==
  {PrefixCrc(n, c) : n \in l..(l + MaxPrefix), c \in CrcInputs}

\* The sequences of at most n elements of S.
SeqUpTo(S, n) == UNION {[1..k -> S] : k \in 0..n}

\* The contents the caller writes through mutable_rep().
Reps ==
  UNION {{[removed_prefix |-> p, prefix_crc |-> q] :
            q \in SeqUpTo(Chunks(p.length), MaxChunks)} :
           p \in RemovedPrefixes}

NoCrcCall == [op |-> "none", before |-> EmptyRep]

(* The caller writes removed_prefix and prefix_crc through mutable_rep().  *)
CallMutableRep(r) ==
  /\ crc_rep' = r
  /\ ccall' = [op |-> "mutable_rep", before |-> crc_rep]
  /\ UNCHANGED <<handleVars, refVars, repVars, nullcall, mcall, poolVars>>

(* A call state.Normalize().                                               *)
CallNormalize ==
  /\ crc_rep' = Normalize(crc_rep)
  /\ ccall' = [op |-> "Normalize", before |-> crc_rep]
  /\ UNCHANGED <<handleVars, refVars, repVars, nullcall, mcall, poolVars>>

CrcNext ==
  \/ ccall.op = "none" /\ \E r \in Reps : CallMutableRep(r)
  \/ ccall.op # "none" /\ CallNormalize

(* CrcCordState(): a new, empty Rep.                                       *)
CrcInit == crc_rep = EmptyRep /\ ccall = NoCrcCall

(* Nothing was called outside the queue, the counter and the nodes.        *)
ExtAtRest ==
  /\ nullcall = NoNullCall
  /\ mcall = NoMove
  /\ PoolInit
  /\ CrcInit

(* The queue with a node nobody touches.                                   *)
Init == HandlesInit /\ DefaultConstructed /\ RepAtRest /\ ExtAtRest

----------------------------------------------------------------------------
(* The calls that change the queue.                                        *)
QueueNext ==
  \/ ConstructHandle
  \/ ConstructSnapshotLock
  \/ \E h \in Handles : ConstructSnapshotLocked(h)
  \/ \E h \in Handles : DeleteCall(h)
  \/ \E h \in Handles : DeleteLock(h)
  \/ \E h \in Handles : DeleteLocked(h)
  \/ \E h \in Handles : DtorLock(h)
  \/ \E h \in Handles : DtorLocked(h)
  \/ \E h \in Handles : DtorDelete(h)
  \/ \E h \in Handles : DtorReturn(h)

Next ==
  \/ QueueNext
  \/ \E self \in Handles, h \in Handles \cup {Null} :
       CallIsSafeToInspect(self, h)
  \/ \E self \in Handles : CallGetSafeToInspectDeletedHandles(self)
  \/ CallGetDeleteQueue
  \/ DropDiagnostics

Spec == Init /\ [][Next]_vars

(* Scheduling: a thread inside a call keeps running, and a thread waiting  *)
(* for the mutex gets it once it stays free.  Nothing makes a thread start *)
(* a call.                                                                 *)
Fairness ==
  \A h \in Handles :
    /\ WF_vars(ConstructSnapshotLocked(h))
    /\ WF_vars(DeleteLock(h))
    /\ WF_vars(DeleteLocked(h))
    /\ WF_vars(DtorLock(h))
    /\ WF_vars(DtorLocked(h))
    /\ WF_vars(DtorDelete(h))
    /\ WF_vars(DtorReturn(h))

(* The owner of a snapshot deletes it in the end: a snapshot that stays    *)
(* alive is passed to Delete.                                              *)
SnapshotsDeleted ==
  \A s \in Handles : WF_vars(is_snapshot_[s] /\ DeleteCall(s))

(* The queue under fair scheduling, its snapshots being deleted in the     *)
(* end.  The Diagnostics calls change nothing of the queue and are left    *)
(* out.                                                                    *)
FairSpec == Init /\ [][QueueNext]_vars /\ Fairness /\ SnapshotsDeleted

(* A node and the threads that share it, with no handle made.              *)
RefInit ==
  /\ HandlesInit /\ (DefaultConstructed \/ ImmortalConstructed)
  /\ RepAtRest /\ ExtAtRest

RefSpec == RefInit /\ [][RefNext]_vars

(* The size classes of flat nodes: one call, on every argument tried.      *)
FlatSpec == Init /\ [][FlatNext]_vars

(* The nodes and their one caller.                                         *)
TreeSpec == Init /\ [][TreeNext]_vars

(* One InlineData object and the calls made on it.                         *)
InlineSpec == Init /\ [][InlineNext]_vars

(* One buffer and the SmallMemmove calls on it.                            *)
MoveSpec == Init /\ [][MoveNext]_vars

(* The thread pool under fair scheduling.                                  *)
PoolFairSpec == Init /\ [][PoolNext]_vars /\ PoolFairness

(* One CrcCordState and the calls made on it.                              *)
CrcSpec == Init /\ [][CrcNext]_vars

(* The queue and the calls Delete(nullptr).                                *)
NullSpec == Init /\ [][NullNext]_vars

----------------------------------------------------------------------------
\* A snapshot whose destructor has taken it off the queue, or that is freed.
OffQueue(s) == status[s] \in {"unlinked", "destroyed"}

\* C1: snapshot protection.  A non-snapshot handle h is destroyed only when
\* every snapshot that had finished its construction and was still on the
\* queue when Delete(h) was called has been taken off the queue by its own
\* destructor: h is never destroyed while such a snapshot is still alive.
C1_SnapshotProtection ==
  \A h \in Handles :
    (~is_snapshot_[h] /\ status[h] = "destroyed")
      => \A s \in guards[h] : OffQueue(s)

\* C1 happens: a handle whose Delete found a snapshot alive has been
\* destroyed, by the destructor of a snapshot that has not returned yet.
C1_Witness ==
  \E h \in Handles :
    /\ ~is_snapshot_[h]
    /\ status[h] = "destroyed"
    /\ \E s \in guards[h] : status[s] = "unlinked" /\ pc[s] = "dtor_ret"

\* A handle that was passed to Delete and is not destroyed yet.
PassedToDelete(h) == status[h] \in {"deleting", "queued", "unlinked"}

\* No Delete call (and so no destructor) is in progress.
NoDeleteRunning ==
  \A h \in Handles : pc[h] \in {"none", "ctor_cs"}

\* C2: eventual reclamation.  Once no snapshot is alive and no Delete call
\* is in progress, the queue is empty and no handle passed to Delete is
\* left undestroyed; and, every snapshot being deleted in the end, every
\* handle passed to Delete is eventually destroyed.
C2_EventualReclamation ==
  /\ []((AliveSnapshots = {} /\ NoDeleteRunning)
          => (dq_tail = Null /\ \A h \in Handles : ~PassedToDelete(h)))
  /\ \A h \in Handles : PassedToDelete(h) ~> (status[h] = "destroyed")

\* C2 happens: a deferred handle and the snapshots that guarded it are all
\* destroyed, and the queue is empty again.
C2_Witness ==
  /\ AliveSnapshots = {}
  /\ NoDeleteRunning
  /\ dq_tail = Null
  /\ \E h \in Handles :
       /\ ~is_snapshot_[h]
       /\ status[h] = "destroyed"
       /\ guards[h] # {}
       /\ \A s \in guards[h] : status[s] = "destroyed"

----------------------------------------------------------------------------
\* The Delete call on h starts in this step.
DeleteCalled(h) == status[h] = "live" /\ status'[h] # "live"

\* The Delete call on h, or the destructor it ran, returns in this step.
DeleteReturns(h) ==
  \/ DeleteCalled(h) /\ pc'[h] = "none"
  \/ pc[h] \notin {"none", "ctor_cs"} /\ pc'[h] = "none"

\* The handles destroyed in this step.
DestroyedNow ==
  {h \in Handles : status[h] # "destroyed" /\ status'[h] = "destroyed"}

\* C3: Delete(h) on a non-snapshot h called while the queue is empty
\* destroys h at once and leaves the queue empty; Delete(h) on a snapshot
\* never defers h and has destroyed h when it returns.
C3_DeleteSynchronous ==
  [][\A h \in Handles :
       /\ (DeleteCalled(h) /\ ~is_snapshot_[h] /\ IsEmpty)
            => (DeleteReturns(h) /\ status'[h] = "destroyed"
                                /\ dq_tail' = Null)
       /\ (DeleteCalled(h) /\ is_snapshot_[h]) => pc'[h] = "dtor_lock"
       /\ (DeleteReturns(h) /\ is_snapshot_[h]) => status'[h] = "destroyed"
    ]_vars

\* C3 happens: a snapshot has been deleted, and a non-snapshot handle has
\* been deleted while no snapshot was alive; both are destroyed and the
\* queue is empty.
C3_Witness ==
  /\ dq_tail = Null
  /\ \A h \in Handles : pc[h] = "none"
  /\ \E s \in Handles : is_snapshot_[s] /\ status[s] = "destroyed"
  /\ \E h \in Handles :
       ~is_snapshot_[h] /\ status[h] = "destroyed" /\ guards[h] = {}

\* C4 as stated: a Delete(h) whose SafeToDelete test was false appends h
\* under the lock and does not destroy it, whatever the other threads do.
C4_Original ==
  [][\A h \in Handles :
       (pc[h] = "del_cs" /\ pc'[h] = "none")
         => (status'[h] = "queued" /\ dq_tail' = h)
    ]_vars

\* C4 amended: a Delete(h) whose SafeToDelete test was false takes the lock;
\* if the queue is still non-empty then, h is appended to the tail under
\* the lock and not destroyed by that call; if the last snapshot has left
\* the queue meanwhile, nothing is appended and the call destroys h.
C4_AppendUnlessEmptied ==
  [][\A h \in Handles :
       (pc[h] = "del_cs" /\ pc'[h] = "none")
         => /\ mutex = h
            /\ IF dq_tail # Null
                 THEN /\ status'[h] = "queued"
                      /\ dq_tail' = h
                      /\ dq_prev_'[h] = dq_tail
                      /\ dq_next_'[dq_tail] = h
                      /\ DestroyedNow = {}
                 ELSE /\ status'[h] = "destroyed"
                      /\ dq_tail' = Null
    ]_vars

\* C4 happens: a Delete whose test found a snapshot holds the lock on a
\* queue that a snapshot destructor has emptied meanwhile.
C4_Witness ==
  \E h \in Handles :
    /\ pc[h] = "del_cs"
    /\ dq_tail = Null
    /\ guards[h] # {}

----------------------------------------------------------------------------
Reverse(q) == [i \in 1..Len(q) |-> q[Len(q) + 1 - i]]

\* The queue as DiagnosticsGetDeleteQueue shows it, oldest entry first.
QueueOrder == Reverse(DiagnosticsGetDeleteQueue)

\* The longest prefix of q that holds no snapshot.
LeadingHandles(q) ==
  LET n == CHOOSE k \in 0..Len(q) :
             /\ \A i \in 1..k : ~is_snapshot_[q[i]]
             /\ k = Len(q) \/ is_snapshot_[q[k + 1]]
  IN SubSeq(q, 1, n)

\* The destructor of s leaves its critical section in this step.
Unlinks(s) == pc[s] = "dtor_cs" /\ pc'[s] = "dtor_loop"

\* C5: the destructor of the snapshot at the head of the queue takes off
\* the queue, and then destroys, exactly the maximal run of non-snapshot
\* handles that follows it; the next snapshot, if any, becomes the head,
\* otherwise the queue becomes empty.
C5_HeadDestroysRun ==
  [][\A s \in Handles :
       /\ (Unlinks(s) /\ Head(QueueOrder) = s)
            => LET rest  == Tail(QueueOrder)
                   run   == LeadingHandles(rest)
                   after == SubSeq(rest, Len(run) + 1, Len(rest))
               IN /\ to_delete'[s] = run
                  /\ QueueOrder' = after
                  /\ after # <<>> => /\ is_snapshot_[Head(after)]
                                     /\ dq_prev_'[Head(after)] = Null
                  /\ after = <<>> => dq_tail' = Null
       /\ (pc[s] = "dtor_loop" /\ pc'[s] = "dtor_ret")
            => DestroyedNow = Range(to_delete[s])
       /\ (pc[s] = "dtor_ret" /\ pc'[s] = "none") => DestroyedNow = {s}
    ]_vars

\* C5 happens: the destructor of the head snapshot s has destroyed a handle
\* that followed it, and a later snapshot is the head of the queue now.
C5_Witness ==
  \E s, h \in Handles :
    /\ pc[s] = "dtor_ret"
    /\ ~is_snapshot_[h] /\ status[h] = "destroyed" /\ s \in guards[h]
    /\ dq_tail # Null
    /\ is_snapshot_[dq_tail] /\ dq_prev_[dq_tail] = Null

\* C6: the destructor of a snapshot that is not the head of the queue takes
\* only that snapshot off the queue: the other entries keep their order,
\* and no other handle is taken off or destroyed.
C6_NonHeadOnlyUnlinks ==
  [][\A s \in Handles :
       /\ (Unlinks(s) /\ Head(QueueOrder) # s)
            => /\ to_delete'[s] = <<>>
               /\ QueueOrder' = SelectSeq(QueueOrder, LAMBDA x : x # s)
               /\ \A h \in Handles \ {s} : status'[h] = status[h]
       /\ (pc[s] = "dtor_loop" /\ to_delete[s] = <<>> /\ pc'[s] = "dtor_ret")
            => DestroyedNow = {}
    ]_vars

\* C6 happens: a snapshot s that was not the head has left the queue, and a
\* handle that followed it is still queued, now behind s's predecessor.
C6_Witness ==
  \E s, h \in Handles :
    /\ is_snapshot_[s] /\ pc[s] = "dtor_loop"
    /\ dq_prev_[s] # Null
    /\ to_delete[s] = <<>>
    /\ status[h] = "queued"
    /\ dq_prev_[h] = dq_prev_[s]

----------------------------------------------------------------------------
\* The place of x in the sequence q, which holds x.
Pos(q, x) == CHOOSE i \in 1..Len(q) : q[i] = x

\* A snapshot has just been asked about a non-null, non-snapshot handle.
InspectedHandle ==
  /\ diag.op = "IsSafeToInspect"
  /\ is_snapshot_[diag.self]
  /\ diag.arg # Null
  /\ ~is_snapshot_[diag.arg]

\* C7: for a live snapshot S and a non-snapshot handle h on the queue,
\* S.DiagnosticsHandleIsSafeToInspect(h) is true exactly when S was
\* appended to the queue before h.
C7_SafeIffAppendedBefore ==
  (InspectedHandle /\ status[diag.arg] = "queued")
    => (diag.retb <=> Pos(appended, diag.self) < Pos(appended, diag.arg))

\* C7 happens: a snapshot constructed after h was deferred is asked about
\* h and answers false.
C7_Witness ==
  /\ InspectedHandle
  /\ status[diag.arg] = "queued"
  /\ Pos(appended, diag.arg) < Pos(appended, diag.self)
  /\ ~diag.retb

\* Walking from the tail, the observer is reached and h has not been
\* encountered before it.
ObserverReachedFirst(self, h) ==
  LET T == DiagnosticsGetDeleteQueue IN
  /\ self \in Range(T)
  /\ h \in Range(T) => Pos(T, self) < Pos(T, h)

\* C8 as stated: the answer is false whenever the walk from the tail
\* reaches the observer before it has encountered the handle.
C8_Original ==
  (InspectedHandle /\ ObserverReachedFirst(diag.self, diag.arg))
    => ~diag.retb

\* C8 amended: the walk from the tail goes on past the observer; the
\* answer is false exactly when the handle is encountered after the
\* observer, and true when the handle is encountered first or is not on
\* the queue at all.
C8_FalseIffFoundBehindObserver ==
  InspectedHandle
    => (~diag.retb <=>
          /\ diag.arg \in Range(DiagnosticsGetDeleteQueue)
          /\ ObserverReachedFirst(diag.self, diag.arg))

\* C8 happens: the observer is on the queue with another entry, the handle
\* asked about is not, and the answer is true.
C8_Witness ==
  /\ InspectedHandle
  /\ diag.arg \notin Range(DiagnosticsGetDeleteQueue)
  /\ Len(DiagnosticsGetDeleteQueue) >= 2
  /\ diag.retb

\* C9: a snapshot answers true for nullptr and for every non-snapshot
\* handle that has not been passed to Delete, created before it or after.
C9_NullAndLiveAreSafe ==
  (/\ diag.op = "IsSafeToInspect"
   /\ is_snapshot_[diag.self]
   /\ \/ diag.arg = Null
      \/ ~is_snapshot_[diag.arg] /\ status[diag.arg] = "live")
    => diag.retb

\* C9 happens: a snapshot is asked about a live handle that was created
\* before it, while a handle created after it is live too.
C9_Witness ==
  /\ InspectedHandle
  /\ status[diag.arg] = "live"
  /\ diag.arg < diag.self
  /\ \E h \in Handles :
       h > diag.self /\ ~is_snapshot_[h] /\ status[h] = "live"
  /\ diag.retb

\* The queue entries appended after self, oldest first.
AfterSelf(self) ==
  SubSeq(QueueOrder, Pos(QueueOrder, self) + 1, Len(QueueOrder))

\* The queue entries appended before self, latest first.
BeforeSelf(self) ==
  Reverse(SubSeq(QueueOrder, 1, Pos(QueueOrder, self) - 1))

\* DiagnosticsGetSafeToInspectDeletedHandles has just returned.
GotSafeToInspect == diag.op = "GetSafeToInspectDeletedHandles"

\* C10 as stated: nothing for a caller that is no snapshot, else exactly
\* the non-snapshot handles between the snapshot and the next snapshot.
\* "Next" is taken in either direction: towards the tail, which is the way
\* the code walks, or away from it.
C10_Original ==
  GotSafeToInspect
    => IF ~is_snapshot_[diag.self]
         THEN diag.retv = <<>>
         ELSE \/ Range(diag.retv)
                   = Range(LeadingHandles(AfterSelf(diag.self)))
              \/ Range(diag.retv)
                   = Range(LeadingHandles(BeforeSelf(diag.self)))

\* C10 amended: nothing for a caller that is no snapshot, else exactly the
\* non-snapshot handles between the snapshot and the tail of the queue,
\* walking towards the tail: later snapshots are skipped and the handles
\* beyond them are returned too.
C10_AllHandlesUpToTail ==
  GotSafeToInspect
    => IF ~is_snapshot_[diag.self]
         THEN diag.retv = <<>>
         ELSE Range(diag.retv)
                = {h \in Range(AfterSelf(diag.self)) : ~is_snapshot_[h]}

\* C10 happens: the snapshot is given a handle that lies beyond a later
\* snapshot.
C10_Witness ==
  /\ GotSafeToInspect
  /\ is_snapshot_[diag.self]
  /\ \E i, j \in 1..Len(QueueOrder) :
       /\ Pos(QueueOrder, diag.self) < i
       /\ i < j
       /\ is_snapshot_[QueueOrder[i]]
       /\ QueueOrder[j] \in Range(diag.retv)

----------------------------------------------------------------------------
\* The non-snapshot handles appended to the queue after self and not
\* destroyed yet, in the order of their appends.  The order of a Delete and
\* of a snapshot's construction is the order of their critical sections.
DeferredAfter(self) ==
  SelectSeq(appended,
            LAMBDA h : /\ ~is_snapshot_[h]
                       /\ Pos(appended, self) < Pos(appended, h))

\* C11: for a live snapshot S, S.DiagnosticsGetSafeToInspectDeletedHandles()
\* returns exactly the non-snapshot handles that were deferred after S was
\* created and are not destroyed yet, each once: it holds no snapshot and no
\* handle that was deferred before S was created.
C11_ExactlyDeferredAfter ==
  (GotSafeToInspect /\ is_snapshot_[diag.self])
    => /\ Range(diag.retv) = Range(DeferredAfter(diag.self))
       /\ Len(diag.retv) = Len(DeferredAfter(diag.self))
       /\ \A h \in Range(diag.retv) :
            /\ ~is_snapshot_[h]
            /\ status[h] = "queued"
            /\ Pos(appended, diag.self) < Pos(appended, h)

\* C11 happens: the snapshot asked is given a handle, while a handle that
\* was deferred before the snapshot was created, or a later snapshot, is on
\* the queue and is not returned.
C11_Witness ==
  /\ GotSafeToInspect
  /\ is_snapshot_[diag.self]
  /\ diag.retv # <<>>
  /\ Len(appended) = 3
  /\ \E x \in Range(appended) : x # diag.self /\ x \notin Range(diag.retv)

\* C12 as stated: the handles DiagnosticsGetSafeToInspectDeletedHandles
\* returns are in LIFO order, most recently deferred first: the order in
\* which DiagnosticsGetDeleteQueue lists them.
C12_LifoOrder ==
  (GotSafeToInspect /\ is_snapshot_[diag.self])
    => diag.retv = SelectSeq(DiagnosticsGetDeleteQueue,
                             LAMBDA h : h \in Range(diag.retv))

\* C13: DiagnosticsGetDeleteQueue returns every entry that is on the queue
\* once, from the tail to the head, the most recently appended first; it is
\* empty when no snapshot was ever created or all of them are destroyed.
C13_QueueTailToHead ==
  diag.op = "GetDeleteQueue"
    => /\ diag.retv = Reverse(SelectSeq(appended,
                                        LAMBDA h : status[h] # "unlinked"))
       /\ Range(diag.retv)
            = {h \in Handles :
                 \/ status[h] = "queued"
                 \/ is_snapshot_[h] /\ status[h] \in {"live", "deleting"}}
       /\ (\A h \in Handles : is_snapshot_[h] => status[h] = "destroyed")
            => diag.retv = <<>>

\* C13 happens: the queue is listed with a deferred handle between two
\* snapshots, the later snapshot first.
C13_Witness ==
  /\ diag.op = "GetDeleteQueue"
  /\ Len(diag.retv) = 3
  /\ is_snapshot_[diag.retv[1]]
  /\ ~is_snapshot_[diag.retv[2]]
  /\ is_snapshot_[diag.retv[3]]
  /\ diag.retv[3] < diag.retv[1]

\* The objects SafeToDelete() may be called on: constructed and not freed,
\* among them the handles Delete has put on the queue.
Constructed ==
  {h \in Handles : status[h] \in {"live", "deleting", "queued"}}

\* C14: SafeToDelete() is true for every snapshot; for a non-snapshot
\* handle it is true exactly when the queue is empty: it is false while a
\* snapshot is alive, and false for a handle that Delete has put on the
\* queue.
C14_SafeToDeleteIffEmpty ==
  \A h \in Constructed :
    /\ is_snapshot_[h] => SafeToDelete(h)
    /\ ~is_snapshot_[h]
         => /\ SafeToDelete(h) <=> DiagnosticsGetDeleteQueue = <<>>
            /\ AliveSnapshots # {} => ~SafeToDelete(h)
            /\ status[h] = "queued" => ~SafeToDelete(h)

\* C14 happens: a snapshot is alive, one handle is on the queue and another
\* one has not been passed to Delete; neither is safe to delete.
C14_Witness ==
  \E s, h, g \in Handles :
    /\ is_snapshot_[s] /\ status[s] = "live"
    /\ status[h] = "queued"
    /\ ~is_snapshot_[g] /\ status[g] = "live"
    /\ ~SafeToDelete(h) /\ ~SafeToDelete(g) /\ SafeToDelete(s)

\* The constructor of the non-snapshot handle h runs in this step.
HandleConstructed(h) ==
  status[h] = "free" /\ status'[h] = "live" /\ ~is_snapshot_'[h]

\* C15: the construction of a non-snapshot handle, the destruction of
\* non-snapshot handles, and Delete(h) on a non-snapshot h whose emptiness
\* check sees an empty queue never wait for the queue mutex and never take
\* it: they can run while another thread holds it, and complete in a step
\* that leaves the mutex as it is.
C15_NoMutexOnFastPath ==
  /\ [](mutex # Null
          => /\ (ThreadIdle /\ Free # {}) => ENABLED ConstructHandle
             /\ \A h \in Handles :
                  /\ (ThreadIdle /\ status[h] = "live" /\ ~is_snapshot_[h])
                       => ENABLED DeleteCall(h)
                  /\ pc[h] = "dtor_loop" => ENABLED DtorDelete(h))
  /\ [][\A h \in Handles :
          /\ HandleConstructed(h) => (mutex' = mutex /\ pc'[h] = "none")
          /\ (DeleteCalled(h) /\ ~is_snapshot_[h] /\ IsEmpty)
               => /\ mutex' = mutex
                  /\ pc'[h] = "none"
                  /\ status'[h] = "destroyed"
          /\ (pc[h] = "dtor_loop" /\ pc'[h] = "dtor_ret")
               => mutex' = mutex
       ]_vars

\* C15 happens: while the constructor of snapshot s holds the mutex, a
\* handle allocated after s has been constructed and, the queue being
\* still empty, deleted.
C15_Witness ==
  \E s, h \in Handles :
    /\ pc[s] = "ctor_cs" /\ mutex = s
    /\ h > s
    /\ ~is_snapshot_[h] /\ status[h] = "destroyed"
    /\ dq_tail = Null

----------------------------------------------------------------------------
\* The two decrements of RefcountAndFlags, as `ret` names them.
Decrements == {"Decrement", "DecrementExpectHighRefcount"}

\* C16: refcount balance.  On a node whose threads Ref only while they hold
\* a reference and release only references they hold, the count is the
\* number of references held; the node is destroyed at most once, by the
\* Unref that takes the count from one to zero and gives up the last
\* reference; every such Unref destroys it; and it is never destroyed while
\* a reference is held.
C16_DestroyedOnceAtZero ==
  /\ [](ctor = "default"
          => /\ destroys <= 1
             /\ destroys = 1 => HeldRefs = 0
             /\ HeldRefs >= 1 => count_ = kRefIncrement * HeldRefs)
  /\ [][ctor = "default"
          => /\ destroys' # destroys
                  => /\ ret'.op = "DecrementExpectHighRefcount"
                     /\ count_ = kRefIncrement /\ count_' = 0
                     /\ HeldRefs = 1 /\ HeldRefs' = 0
                     /\ destroys = 0 /\ destroys' = 1
             /\ (ret'.op = "DecrementExpectHighRefcount" /\ HeldRefs = 1)
                  => destroys' = destroys + 1
             /\ (ret'.op = "DecrementExpectHighRefcount" /\ HeldRefs > 1)
                  => destroys' = destroys
       ]_vars

\* C16 happens: the node has been shared, and the Unref of a thread other
\* than its creator has taken the count from one to zero and destroyed it.
C16_Witness ==
  /\ ctor = "default"
  /\ destroys = 1
  /\ ret.op = "DecrementExpectHighRefcount"
  /\ ret.t # 1
  /\ ret.before = kRefIncrement
  /\ count_ = 0

C19_IsOneIffExclusive ==
  ret.op = "IsOne"
    => /\ ret.val <=> (~IsImmortal(ret.before) /\ Get(ret.before) = 1)
       /\ ctor = "default" => (ret.val <=> HeldRefs = 1)
       /\ HeldRefs >= 2 => ~ret.val

\* C19 happens: a thread has taken a second reference and handed it to
\* another thread; IsOne() then returns false.
C19_Witness ==
  /\ ret.op = "IsOne"
  /\ ~ret.val
  /\ ctor = "default"
  /\ HeldRefs = 2
  /\ \E t, u \in Threads : t # u /\ refs[t] = 1 /\ refs[u] = 1

\* A decrement has just returned, and no other thread changed the counter
\* between its first and its last access: it started from ret.before.
DecrementedFrom ==
  /\ ret.op \in Decrements
  /\ ret.op = "Decrement" => ret.loaded = ret.before

----------------------------------------------------------------------------
(* Size classes of flat nodes (FlatSpec)                                   *)

\* The granularity of the band an allocated size lies in.
Granularity(size) ==
  IF size <= 512 THEN 8 ELSE IF size <= 8192 THEN 64 ELSE 4096

\* C24: for every tag t of [FLAT, MAX_FLAT_TAG], the allocated size of t,
\* rounded up and mapped to a tag, is t again, and no other tag of the range
\* has the allocated size of t.
C24_TagRoundTrip ==
  flat.op = "TagToAllocatedSize"
    => /\ AllocatedSizeToTag(RoundUpForTag(flat.size)) = flat.tag
       /\ \A u \in FlatTags :
            TagToAllocatedSize(u) = flat.size => u = flat.tag

\* C24 happens: TagToAllocatedSize has been called on the first tag of the
\* 64-byte band.
C24_Witness ==
  /\ flat.op = "TagToAllocatedSize"
  /\ flat.tag = kTagBase + 512 \div 8 + 1
  /\ flat.size = 576

\* C25: for every n from 32 to 256 KiB, RoundUpForTag(n) is the smallest
\* size of a tag that is at least n: a multiple of the granularity of its
\* band, and the allocated size of the tag it maps to.
C25_RoundUpSmallestTagSize ==
  (flat.op = "RoundUpForTag" /\ flat.len >= kMinFlatSize
     /\ flat.len <= kMaxLargeFlatSize)
    => /\ flat.size >= flat.len
       /\ flat.size % Granularity(flat.size) = 0
       /\ flat.tag \in FlatTags
       /\ TagToAllocatedSize(flat.tag) = flat.size
       /\ \A t \in FlatTags :
            TagToAllocatedSize(t) >= flat.len
              => TagToAllocatedSize(t) >= flat.size

\* C25 happens: RoundUpForTag has been called on the size one past the
\* 64-byte band, and has gone up to the next multiple of 4 KiB.
C25_Witness ==
  /\ flat.op = "RoundUpForTag"
  /\ flat.len = 8192 + 1
  /\ flat.size = 8192 + 4096

\* C26: for every len passed to New(len) or New(Large, len), the size handed
\* to operator new is the allocated size of the tag stored, which lies in
\* [FLAT, MAX_FLAT_TAG], and is the size Delete hands to operator delete.
C26_NewDeleteSizesMatch ==
  flat.op \in {"New", "Delete"}
    => /\ flat.tag \in FlatTags
       /\ AllocatedSizeToTagAssert(flat.size)
       /\ flat.size = TagToAllocatedSize(flat.tag)
       /\ flat.op = "Delete" => flat.freed = flat.size

\* C26 happens: a large flat node asked for with more than the largest
\* length has been allocated with 256 KiB and freed with 256 KiB.
C26_Witness ==
  /\ flat.op = "Delete"
  /\ flat.large
  /\ flat.len > kMaxLargeFlatLength
  /\ flat.size = kMaxLargeFlatSize
  /\ flat.freed = kMaxLargeFlatSize

----------------------------------------------------------------------------
(* Substring and external nodes (TreeSpec)                                 *)

\* Substring has just returned a node other than rep.
MadeSubstring ==
  /\ last.op = "Substring"
  /\ last.result # last.rep

\* C21: Substring(s, pos, n) with 0 < n < s.length on a substring s of child
\* c and start a gives a node of child c and start a + pos; and whatever
\* Create and Substring calls were made, no substring node has a substring
\* node for child.
C21_RangeNormalized ==
  /\ (last.op = "Substring" /\ IsSubstring(last.rep)
        /\ last.n < heap[last.rep].length)
       => /\ Live(last.result)
          /\ IsSubstring(last.result)
          /\ heap[last.result].child = heap[last.rep].child
          /\ heap[last.result].start = heap[last.rep].start + last.pos
          /\ heap[last.result].length = last.n
  /\ \A x \in Nodes :
       (Live(x) /\ IsSubstring(x)) => ~IsSubstring(heap[x].child)

\* C21 happens: a substring that starts past the start of its child has had
\* a Substring taken past its own start.
C21_Witness ==
  /\ MadeSubstring
  /\ IsSubstring(last.rep)
  /\ heap[last.rep].start > 0
  /\ last.pos > 0
  /\ heap[last.result].start = heap[last.rep].start + last.pos

\* C22: Substring(rep, 0, rep->length) returns rep itself with its
\* reference count raised by exactly one, and allocates no node, also when
\* rep is a substring.
C22_FullRangeReturnsRep ==
  [][(last'.op = "Substring" /\ last'.pos = 0
        /\ last'.n = heap[last'.rep].length)
       => /\ last'.result = last'.rep
          /\ heap' = [heap EXCEPT ![last'.rep].count =
                                    heap[last'.rep].count + kRefIncrement]]_vars

\* C22 happens: Substring over the whole of a substring node has returned
\* the node, which now has two references.
C22_Witness ==
  /\ last.op = "Substring"
  /\ last.pos = 0
  /\ last.result = last.rep
  /\ IsSubstring(last.rep)
  /\ last.n = heap[last.rep].length
  /\ Get(heap[last.rep].count) = 2

\* C23: every substring node made by Create or Substring has
\* 0 < length < child.length and start + length <= child.length, the ones
\* with a moved start included.
C23_SubstringWithinChild ==
  \A x \in Nodes :
    (Live(x) /\ IsSubstring(x))
      => /\ Live(heap[x].child)
         /\ 0 < heap[x].length
         /\ heap[x].length < heap[heap[x].child].length
         /\ heap[x].start + heap[x].length <= heap[heap[x].child].length

\* C23 happens: a Substring of a substring has made a node that ends where
\* its child ends.
C23_Witness ==
  /\ MadeSubstring
  /\ IsSubstring(last.rep)
  /\ heap[last.result].start > last.pos
  /\ heap[last.result].start + heap[last.result].length
       = heap[heap[last.result].child].length

\* What the releaser of the external node x is to be called with.
ReleaserArgs(x) ==
  IF heap[x].arity = 1
    THEN <<[base |-> heap[x].base, length |-> heap[x].length]>>
    ELSE <<>>

\* The releaser of x is invoked in this step.
Releases(x) == released'[x] # released[x]

\* C30: the releaser of an external node is invoked exactly once, by the
\* Unref that drops the last reference on the node and not before; a
\* releaser of one argument receives exactly the range (base, length).
C30_ReleasedOnceAtLastUnref ==
  /\ [](\A x \in Nodes :
          /\ Len(released[x]) <= 1
          /\ Live(x) => /\ released[x] = <<>>
                        /\ RefsOn(x) >= 1
                        /\ heap[x].count = RefsOn(x) * kRefIncrement
          /\ released[x] # <<>> => heap[x].st = "deleted")
  /\ [][\A x \in Nodes :
          /\ Releases(x)
               => /\ last'.op = "Unref"
                  /\ Live(x) /\ IsExternal(x)
                  /\ RefsOn(x) = 1
                  /\ last'.rep = x \/ last'.rep \in Parents(x)
                  /\ released'[x] = <<ReleaserArgs(x)>>
          /\ (Live(x) /\ IsExternal(x) /\ heap'[x].st = "deleted")
               => Releases(x)]_vars

\* C30 happens: the Unref of a substring node has dropped the last
\* reference on its external child, whose one-argument releaser was called
\* with the child's range.
C30_Witness ==
  /\ last.op = "Unref"
  /\ \E x \in Nodes :
       /\ x # last.rep
       /\ heap[x].st = "deleted"
       /\ released[x] = <<(<<[base |-> x, length |-> MaxLen]>>)>>

----------------------------------------------------------------------------
(* InlineData (InlineSpec)                                                 *)

\* The byte string an inline value holds.
InlineString(d) == SubSeq(as_chars(d), 1, inline_size(d))

\* C27: an InlineData built from a byte string of n <= 15 bytes, by
\* set_inline_data or by the string_view constructor, is not a tree, has
\* inline_size n, holds the n bytes first, and zeroes in the bytes n..14.
C27_InlineRoundTrip ==
  icall.op \in {"set_inline_data", "InlineData"}
    => LET n == Len(icall.chars) IN
       /\ ~is_tree(rep_)
       /\ inline_size(rep_) = n
       /\ \A i \in 1..n : as_chars(rep_)[i] = icall.chars[i]
       /\ \A i \in (n + 1)..kMaxInline : as_chars(rep_)[i] = 0

\* C27 happens: set_inline_data has put a string of fewer than 4 bytes over
\* an inline value of 15 bytes whose last byte was 255.
C27_Witness ==
  /\ icall.op = "set_inline_data"
  /\ Len(icall.chars) \in 1..3
  /\ ~is_tree(icall.before)
  /\ inline_size(icall.before) = kMaxInline
  /\ icall.before[kMaxInline + 1] = 255
  /\ rep_[kMaxInline + 1] = 0

\* C28: an InlineData constructed from a rep that is not null, or after
\* make_tree(rep) from any state, is a tree, as_tree() is rep, and it is not
\* profiled: cordz_info() is null.
C28_TreeNotProfiled ==
  icall.op \in {"InlineDataTree", "make_tree"}
    => /\ is_tree(rep_)
       /\ as_tree(rep_) = icall.tree
       /\ ~is_profiled(rep_)
       /\ cordz_info(rep_) = Null

\* C28 happens: make_tree has been called on a profiled tree of another
\* rep.
C28_Witness ==
  /\ icall.op = "make_tree"
  /\ is_tree(icall.before)
  /\ is_profiled(icall.before)
  /\ as_tree(icall.before) # icall.tree
  /\ as_tree(rep_) = icall.tree

\* The order of two byte strings: by the first byte that differs, taken as
\* unsigned, and a proper prefix before the longer string.
Lexicographic(a, b) ==
  LET m == IF Len(a) < Len(b) THEN Len(a) ELSE Len(b)
      D == {i \in 1..m : a[i] # b[i]}
  IN IF D # {} THEN (IF a[Min(D)] < b[Min(D)] THEN -1 ELSE 1)
     ELSE IF Len(a) = Len(b) THEN 0
     ELSE IF Len(a) < Len(b) THEN -1 ELSE 1

\* C29: for inline values a and b with zeroed tails, a.Compare(b) is -1, 0
\* or 1 by the lexicographic order of the unsigned bytes, a proper prefix
\* before the longer string; it is 0 exactly when a and b are equal, and
\* b.Compare(a) is its opposite.
C29_CompareLexicographic ==
  icall.op = "Compare"
    => LET a == InlineString(rep_)
           b == icall.chars
       IN /\ icall.ret = Lexicographic(a, b)
          /\ icall.ret = 0 <=> a = b
          /\ icall.ret = 0 <=> rep_ = RepOfChars(b)
          /\ Compare(RepOfChars(b), rep_) = 0 - icall.ret

\* C29 happens: two strings that differ first in byte 7, which both words
\* of Compare load, 255 against 1.
C29_Witness ==
  /\ icall.op = "Compare"
  /\ icall.ret = 1
  /\ Len(icall.chars) >= 8
  /\ inline_size(rep_) >= 8
  /\ as_chars(rep_)[8] = 255
  /\ icall.chars[8] = 1

----------------------------------------------------------------------------
\* C31: passing a null handle to Delete is fatal: the call aborts and never
\* returns normally, whatever the build.
C31_NullDeleteAborts == nullcall # "returned"

----------------------------------------------------------------------------
\* C32: SmallMemmove(dst, src, n) leaves in dst[0..n) what src[0..n) held
\* before the call, for every n up to 15 and all regions of one buffer,
\* overlapping or not.
C32_OverlapSafe ==
  mcall.op = "SmallMemmove" =>
    \A i \in 0..(mcall.n - 1) :
      mcall.after[mcall.dst + i] = mcall.before[mcall.src + i]

----------------------------------------------------------------------------
\* The handles reached from the set S along dq_prev_ and dq_next_.
RECURSIVE Reach(_)
Reach(S) ==
  LET T == (S \cup {dq_prev_[x] : x \in S} \cup {dq_next_[x] : x \in S})
             \ {Null}
  IN IF T = S THEN S ELSE Reach(T)

\* The handles reachable from the queue.
Reachable == Reach({dq_tail} \ {Null})

\* The handles a running call is about to destroy: the handle of a Delete
\* or destructor in flight, and the entries of every to_delete.
AboutToDestroy(h) ==
  Cardinality({x \in Handles : x = h /\ pc[x] \notin {"none", "ctor_cs"}})
    + Cardinality({<<s, i>> \in Handles \X (1..MaxHandles) :
                     i <= Len(to_delete[s]) /\ to_delete[s][i] = h})

\* C33: whatever the interleaving of snapshot constructions, snapshot
\* destructions and Delete calls, no handle is destroyed more than once (a
\* destroyed handle is in no running Delete or destructor and in no
\* to_delete, and a handle that is not destroyed yet is in at most one),
\* and no destroyed handle is reachable from dq_tail along the links.
C33_DestroyedOnceAndUnreachable ==
  /\ \A h \in Handles :
       /\ status[h] = "destroyed" => AboutToDestroy(h) = 0
       /\ AboutToDestroy(h) <= 1
  /\ \A h \in Reachable : status[h] # "destroyed"

\* A deferred handle was destroyed by a destructor while another entry
\* stays on the queue and two calls are in flight.
C33_Witness ==
  /\ \E h \in Handles :
       ~is_snapshot_[h] /\ guards[h] # {} /\ status[h] = "destroyed"
  /\ dq_tail # Null
  /\ Cardinality(Running) = NumThreads

----------------------------------------------------------------------------
\* A non-snapshot handle is appended to the queue in this step.
Deferred(h) == status[h] # "queued" /\ status'[h] = "queued"

\* C34: whenever the queue is not empty its head, the oldest entry, is a
\* snapshot that is alive; the queue is not empty exactly when a snapshot is
\* alive, that is constructed and not taken off the queue by its
\* destructor; and Delete appends a handle only to a queue that is not
\* empty, also when the last snapshot went away between the emptiness test
\* of Delete and its taking the mutex.
C34_HeadIsSnapshot ==
  /\ [](/\ QueueOrder # <<>> => QueueOrder[1] \in AliveSnapshots
        /\ dq_tail # Null <=> AliveSnapshots # {})
  /\ [][\A h \in Handles :
          Deferred(h) => dq_tail # Null /\ AliveSnapshots # {}]_vars

\* Delete holds the mutex for a handle whose emptiness test saw a snapshot,
\* and the queue is empty by now.
C34_Witness ==
  \E h \in Handles :
    /\ pc[h] = "del_cs"
    /\ guards[h] # {}
    /\ dq_tail = Null

----------------------------------------------------------------------------
\* The queue, read from dq_tail along dq_prev_, is a doubly linked list
\* without a repeated entry: head.prev and tail.next are null,
\* x.next.prev = x for every entry, and dq_tail is null exactly when the
\* list is empty.
WellFormed ==
  LET q == QueueOrder
  IN /\ dq_tail = Null <=> q = <<>>
     /\ q # <<>> => /\ dq_prev_[q[1]] = Null
                    /\ dq_next_[q[Len(q)]] = Null
                    /\ q[Len(q)] = dq_tail
     /\ \A i \in 1..(Len(q) - 1) :
          dq_next_[q[i]] = q[i + 1] /\ dq_prev_[q[i + 1]] = q[i]
     /\ \A i, j \in 1..Len(q) : q[i] = q[j] => i = j

\* The entries of the queue are in the order in which they were appended.
InInsertionOrder ==
  QueueOrder = SelectSeq(appended, LAMBDA x : x \in Range(QueueOrder))

\* The non-snapshot handles that were deferred and are not destroyed.
DeferredUndestroyed ==
  {h \in Handles : ~is_snapshot_[h] /\ status[h] \in {"queued", "unlinked"}}

\* C35 as stated: whenever the mutex is free the queue is a well-formed
\* doubly linked list in insertion order whose entries are exactly the live
\* snapshots and the deferred handles that are not destroyed yet.
C35_Original ==
  mutex = Null =>
    /\ WellFormed
    /\ InInsertionOrder
    /\ Range(QueueOrder) = AliveSnapshots \cup DeferredUndestroyed

\* C35, amended: whenever the mutex is free the queue is a well-formed
\* doubly linked list in insertion order whose entries are exactly the
\* snapshots that are constructed and not unlinked and the deferred handles
\* that no destructor has collected; the handles a destructor has collected
\* in to_delete are off the queue before they are destroyed.
C35_WellFormedQueue ==
  mutex = Null =>
    /\ WellFormed
    /\ InInsertionOrder
    /\ Range(QueueOrder) =
         AliveSnapshots \cup {h \in Handles : status[h] = "queued"}
    /\ \A s \in Handles :
         Range(to_delete[s]) \cap Range(QueueOrder) = {}

\* The mutex is free, a destructor has collected a deferred handle that it
\* has not destroyed yet, and the queue is not empty.
C35_Witness ==
  /\ mutex = Null
  /\ \E s \in Handles : to_delete[s] # <<>>
  /\ Len(QueueOrder) >= 1

----------------------------------------------------------------------------
\* The non-snapshot handles on the queue.
QueuedHandles ==
  {h \in Handles : ~is_snapshot_[h] /\ status[h] = "queued"}

\* C36: in every state, for every live snapshot S and every non-snapshot
\* handle h on the queue, h is in
\* S.DiagnosticsGetSafeToInspectDeletedHandles() exactly when
\* S.DiagnosticsHandleIsSafeToInspect(h) is true; the answer a call of
\* either method has just returned is the one the other method gives.
C36_QueriesAgree ==
  /\ \A S \in Callable, h \in QueuedHandles :
       is_snapshot_[S] =>
         (h \in Range(DiagnosticsGetSafeToInspectDeletedHandles(S))
            <=> DiagnosticsHandleIsSafeToInspect(S, h))
  /\ (/\ diag.op = "IsSafeToInspect"
      /\ is_snapshot_[diag.self]
      /\ diag.arg \in QueuedHandles)
       => (diag.retb <=>
             diag.arg \in
               Range(DiagnosticsGetSafeToInspectDeletedHandles(diag.self)))
  /\ (diag.op = "GetSafeToInspectDeletedHandles" /\ is_snapshot_[diag.self])
       => \A h \in QueuedHandles :
            h \in Range(diag.retv)
              <=> DiagnosticsHandleIsSafeToInspect(diag.self, h)

\* A call on a snapshot has just answered that a handle on the queue is not
\* safe to inspect, while another live snapshot lists that handle.
C36_Witness ==
  /\ diag.op = "IsSafeToInspect"
  /\ is_snapshot_[diag.self]
  /\ diag.arg \in QueuedHandles
  /\ ~diag.retb
  /\ \E S \in Callable :
       /\ is_snapshot_[S]
       /\ diag.arg \in Range(DiagnosticsGetSafeToInspectDeletedHandles(S))

----------------------------------------------------------------------------
\* Decrement() has just returned on a counter that is not immortal and
\* held exactly one reference.
DecrementAtOne ==
  /\ ret.op = "Decrement"
  /\ ~IsImmortal(ret.loaded)
  /\ Get(ret.loaded) = 1

\* DecrementExpectHighRefcount() has just returned on such a counter.
ExpectHighAtOne ==
  /\ ret.op = "DecrementExpectHighRefcount"
  /\ ~IsImmortal(ret.before)
  /\ Get(ret.before) = 1

----------------------------------------------------------------------------
\* C38: Substring(rep, pos, n) with n < rep->length adopts no reference on
\* rep: the caller keeps the one it holds; the call raises the reference
\* count of exactly one node that existed, the flat or external node the
\* result points to, by one, and leaves the count of rep alone when rep is
\* a substring.  Create(child, pos, n) takes over the caller's reference on
\* child and changes the reference count of no node that existed.
C38_SubstringRefsLeafOnly ==
  [][/\ (last'.op = "Substring" /\ last'.n < heap[last'.rep].length)
          => LET r == last'.result
                 c == heap'[r].child
             IN /\ heap[r].st = "free"
                /\ heap'[r].tag = SUBSTRING
                /\ heap'[r].count = kRefIncrement
                /\ IsFlat(c) \/ IsExternal(c)
                /\ heap'[c].count = heap[c].count + kRefIncrement
                /\ \A y \in Nodes \ {c, r} : heap'[y] = heap[y]
                /\ IsSubstring(last'.rep)
                     => /\ c = heap[last'.rep].child
                        /\ heap'[last'.rep].count = heap[last'.rep].count
                /\ ~IsSubstring(last'.rep) => c = last'.rep
                /\ owned'[last'.rep] = owned[last'.rep]
     /\ last'.op = "Create"
          => LET r == last'.result
             IN /\ heap[r].st = "free"
                /\ heap'[r].child = last'.rep
                /\ heap'[r].count = kRefIncrement
                /\ \A y \in Nodes \ {r} : heap'[y] = heap[y]
                /\ owned'[last'.rep] = owned[last'.rep] - 1
    ]_vars

\* Substring of a part of a substring node has returned a new node: the
\* leaf has a second reference, the substring it was called on has one.
C38_Witness ==
  /\ last.op = "Substring"
  /\ IsSubstring(last.rep)
  /\ last.result # last.rep
  /\ Live(last.rep)
  /\ Get(heap[last.rep].count) = 1
  /\ Get(heap[heap[last.result].child].count) = 2

----------------------------------------------------------------------------
\* The shutdown signals on the queue.
Signals == {i \in 1..Len(queue_) : queue_[i] = Null}

\* The workers that have left WorkLoop.
Exited == {w \in Workers : wpc[w] = "exit"}

\* C39: every function passed to Schedule before the destructor starts is
\* called exactly once, by one worker; every worker leaves WorkLoop on
\* taking a shutdown signal and takes exactly one, so that the signals left
\* and the workers gone add up to the number of workers; the destructor
\* returns only with all workers joined, the queue empty and every function
\* finished; and, every function returning, a destructor that has started
\* returns.
C39_ShutdownDrains ==
  /\ [](/\ \A f \in Funcs :
             /\ runs[f].started <= 1
             /\ runs[f].finished <= runs[f].started
             /\ runs[f].started = 1 => runs[f].scheduled
        /\ \A w \in Exited : func[w] = Null
        /\ Cardinality(Signals) + Cardinality(Exited)
             = IF tpc = "run" THEN 0 ELSE NumWorkers
        /\ joined \subseteq Exited
        /\ tpc = "done"
             => /\ joined = Workers
                /\ queue_ = <<>>
                /\ \A f \in Funcs :
                     runs[f].scheduled
                       => runs[f].started = 1 /\ runs[f].finished = 1)
  /\ (tpc = "join") ~> (tpc = "done")

\* The destructor has returned after every function of Funcs was scheduled
\* and has run.
C39_Witness ==
  /\ tpc = "done"
  /\ \A f \in Funcs : runs[f].scheduled /\ runs[f].finished = 1

----------------------------------------------------------------------------
TypeOK ==
  /\ is_snapshot_ \in [Handles -> BOOLEAN]
  /\ dq_prev_ \in [Handles -> Handles \cup {Null}]
  /\ dq_next_ \in [Handles -> Handles \cup {Null}]
  /\ dq_tail \in Handles \cup {Null}
  /\ mutex \in Handles \cup {Null}
  /\ status \in [Handles -> Status]
  /\ pc \in [Handles -> Positions]
  /\ count_ \in MinInt32..MaxInt32
  /\ ctor \in {"default", "Immortal"}
  /\ refs \in [Threads -> 0..MaxRefs]
  /\ rpc \in [Threads -> {"idle", "loaded"}]
  /\ destroys \in 0..1
  /\ calls \in 0..MaxCalls
  /\ nullcall \in {"none", "returned", "aborted"}
  /\ mcall.n \in 0..kMaxInline
  /\ queue_ \in Seq(Funcs \cup {Null})
  /\ wpc \in [Workers -> {"await", "call", "exit"}]
  /\ func \in [Workers -> Funcs \cup {Null}]
  /\ tpc \in {"run", "join", "done"}
  /\ joined \subseteq Workers
  /\ Len(crc_rep.prefix_crc) <= MaxChunks
====
